---------------------------- MODULE Spec2Model ----------------------------
(***************************************************************************)
(* A model of the DataChannel / PeerChannel messaging core.                *)
(*                                                                         *)
(* Two DataChannel objects are modelled: the sender (only its _sendingTag  *)
(* matters) and the receiver (the record dc).  Chunks are sequences of     *)
(* bytes exactly as put on the wire: the tag byte followed by the payload. *)
(* The sizes of the source (16 KiB chunks, 10 MiB messages, tag modulus    *)
(* 255, 4-byte header fields) are scaled down to the bounds below; every   *)
(* comparison of the code is kept as written, against the scaled value.    *)
(***************************************************************************)
EXTENDS Integers, Sequences, FiniteSets, TLC

(***************************************************************************)
(* Bounds (scaled sizes).                                                  *)
(***************************************************************************)
\* DataChannel.CHUNK_SIZE_MAX, bytes of one chunk, tag included (source: 16384).
CHUNK_SIZE_MAX == 4
\* DataChannel.MESSAGE_SIZE_MAX, bytes of one message (source: 10485760).
MESSAGE_SIZE_MAX == 7
\* NumberUtils.UINT8_MAX, the largest byte and the tag modulus (source: 255).
UINT8_MAX == 8
\* Messages the transport holds chunks of between sendChunk and delivery.
MaxInFlight == 2
\* DataChannel.CHUNK_TIMEOUT and MESSAGE_TIMEOUT, in clock ticks (source: 5000
\* and 3200000 ms).
CHUNK_TIMEOUT == 1
MESSAGE_TIMEOUT == 2
\* Ticks of the wall clock (Date.now()).
MaxClock == 2

Byte == 0..UINT8_MAX

(***************************************************************************)
(* Wire codec (Message): magic, type, length, checksum, payload.  Every    *)
(* header field is one byte here.                                          *)
(***************************************************************************)
MAGIC == 1
MAGIC_POS == 1
TYPE_POS == 2
LENGTH_POS == 3
CHECKSUM_POS == 4
HEADER_SIZE == 4

\* Message.Type: the types the model distinguishes, and a byte that is none.
TYPE_BLOCK == 2
TYPE_REJECT == 3
TYPE_UNKNOWN == 5
Types == {TYPE_BLOCK, TYPE_REJECT}

\* A payload of n bytes: 0 and 1 in turn, starting as k says.
Payload(n, k) == [i \in 1..n |-> (i + k) % 2]

RECURSIVE SumBytes(_)
SumBytes(s) == IF s = << >> THEN 0 ELSE Head(s) + SumBytes(Tail(s))

\* The checksum of a payload.
Checksum(payload) == SumBytes(payload) % (UINT8_MAX + 1)

\* Message.serialize: header, then payload.
Serialize(type, payload) ==
    << MAGIC, type, HEADER_SIZE + Len(payload), Checksum(payload) >> \o payload

\* Message.peekLength / Message.peekType throw when the field lies beyond the
\* end of the buffer or the magic mismatches.
PeekLengthThrows(buf) == Len(buf) < LENGTH_POS \/ buf[MAGIC_POS] # MAGIC
PeekLength(buf) == buf[LENGTH_POS]
PeekTypeThrows(buf) == Len(buf) < TYPE_POS \/ buf[MAGIC_POS] # MAGIC
PeekType(buf) == buf[TYPE_POS]

\* MessageFactory.parse throws unless the magic is right, the type is known,
\* the length is the buffer's and the checksum is the payload's.
ParseThrows(buf) ==
    \/ Len(buf) < HEADER_SIZE
    \/ buf[MAGIC_POS] # MAGIC
    \/ buf[TYPE_POS] \notin Types
    \/ buf[LENGTH_POS] # Len(buf)
    \/ buf[CHECKSUM_POS] # Checksum(SubSeq(buf, HEADER_SIZE + 1, Len(buf)))


\* A Uint8Array handed to send(): a view of byteLength bytes at byteOffset of
\* an underlying buffer.
Uint8Array(buffer, byteOffset, byteLength) ==
    [buffer |-> buffer, byteOffset |-> byteOffset, byteLength |-> byteLength]

\* The bytes a Uint8Array view shows.
ViewBytes(a) == SubSeq(a.buffer, a.byteOffset + 1, a.byteOffset + a.byteLength)

\* msg.serialize(): a fresh buffer, viewed whole.
Serialized(type, payload) ==
    Uint8Array(Serialize(type, payload), 0, HEADER_SIZE + Len(payload))

\* The serialized messages send() is called with: every type, with a payload
\* of every length that keeps the message within MESSAGE_SIZE_MAX.
ValidMessages ==
    { Serialized(t, Payload(n, t)) :
        t \in Types, n \in 0..(MESSAGE_SIZE_MAX - HEADER_SIZE) }

(***************************************************************************)
(* DataChannel, outbound.                                                  *)
(***************************************************************************)
\* The loop of _sendChunked: the chunks handed to sendChunk, in order.
RECURSIVE SendChunkedLoop(_, _, _)
SendChunkedLoop(msg, tag, remaining) ==
    IF remaining > 0
    THEN LET chunk ==
                IF remaining + 1 >= CHUNK_SIZE_MAX
                THEN SubSeq(msg.buffer, msg.byteLength - remaining + 1,
                            msg.byteLength - remaining + CHUNK_SIZE_MAX - 1)
                ELSE SubSeq(msg.buffer, msg.byteLength - remaining + 1,
                            msg.byteLength - remaining + remaining)
         IN  << <<tag>> \o chunk >>
                \o SendChunkedLoop(msg, tag, remaining - Len(chunk))
    ELSE << >>

SendChunked(msg, tag) == SendChunkedLoop(msg, tag, msg.byteLength)

\* Mutant of NextSendingTag: the tag wraps as a byte does.
NextSendingTagByte(sendingTagNow) == (sendingTagNow + 1) % (UINT8_MAX + 1)

\* The tag send() leaves in _sendingTag.
NextSendingTag(sendingTagNow) == (sendingTagNow + 1) % UINT8_MAX

\* Mutant of SendThrows: a message of MESSAGE_SIZE_MAX bytes is refused.
SendThrowsAtMax(msg) == ~(msg.byteLength < MESSAGE_SIZE_MAX)

\* send(): the assertion, the tag, the chunks.
SendThrows(msg) == ~(msg.byteLength <= MESSAGE_SIZE_MAX)

(***************************************************************************)
(* DataChannel, inbound.                                                   *)
(***************************************************************************)
CONNECTING == 0
OPEN == 1
CLOSING == 2
CLOSED == 3

\* new Map()
EmptyMap == [t \in {} |-> 0]

\* this._buffer = null
NullBuffer == [bytes |-> << >>, byteLength |-> -1, writePos |-> -1]

\* new SerialBuffer(size): size zero bytes, nothing written.
NewSerialBuffer(size) ==
    [bytes |-> [i \in 1..size |-> 0], byteLength |-> size, writePos |-> 0]

\* Mutant of BufferWrite: copies at the start of the buffer.
BufferWriteAtStart(buf, array) ==
    [buf EXCEPT
        !.bytes = [i \in 1..buf.byteLength |->
                     IF i <= Len(array) THEN array[i] ELSE buf.bytes[i]],
        !.writePos = buf.writePos + Len(array)]

\* SerialBuffer.write(array): copies at writePos, advances it.
BufferWrite(buf, array) ==
    [buf EXCEPT
        !.bytes = [i \in 1..buf.byteLength |->
                     IF i > buf.writePos /\ i <= buf.writePos + Len(array)
                     THEN array[i - buf.writePos] ELSE buf.bytes[i]],
        !.writePos = buf.writePos + Len(array)]

\* An event as a subscriber observes it.
Event(name, data, reason) == [name |-> name, data |-> data, reason |-> reason]

\* Observable.fire: reaches the listeners there are.
Fire(d, name, data, reason) ==
    IF d.listeners THEN [d EXCEPT !.events = Append(@, Event(name, data, reason))]
    ELSE d

\* Timers.resetTimeout(key, fn, wait): replaces the timer pending under key.
ResetTimeout(timers, key, exp, due) ==
    { t \in timers : t.key # key } \cup { [key |-> key, exp |-> exp, due |-> due] }

\* Timers.clearTimeout(key)
ClearTimeout(timers, key) == { t \in timers : t.key # key }

\* Mutant of OnClose: the timers stay pending.
OnCloseKeepsTimers(d) == [Fire(d, "close", << >>, "") EXCEPT !.listeners = FALSE]

\* Mutant of OnClose: the listeners stay subscribed.
OnCloseKeepsListeners(d) == Fire([d EXCEPT !.timers = {}], "close", << >>, "")

\* _onClose()
OnClose(d) ==
    LET cleared == [d EXCEPT !.timers = {}]
        fired == Fire(cleared, "close", << >>, "")
    IN  [fired EXCEPT !.listeners = FALSE]

\* close() of the transport adapter: the transport leaves OPEN at once; its
\* close notification runs _onClose within the call (sync) or later.
Close(d, sync) ==
    IF d.readyState \in {CLOSING, CLOSED} THEN d
    ELSE IF sync THEN OnClose([d EXCEPT !.readyState = CLOSED])
    ELSE [d EXCEPT !.readyState = CLOSING]

\* _error(msg)
Error(d, reason, sync) == Close(Fire(d, "error", << >>, reason), sync)

\* Mutant of IsNextTag: the tag wraps as a byte does.
IsNextTagByte(receivingTag, tag) == tag = (receivingTag + 1) % (UINT8_MAX + 1)

\* tag === (this._receivingTag + 1) % NumberUtils.UINT8_MAX
IsNextTag(receivingTag, tag) == tag = (receivingTag + 1) % UINT8_MAX

\* Mutant of ChunkTooLarge: the bound itself is too large.
ChunkTooLargeInclusive(msg) == Len(msg) >= CHUNK_SIZE_MAX

\* buffer.byteLength > DataChannel.CHUNK_SIZE_MAX
ChunkTooLarge(msg) == Len(msg) > CHUNK_SIZE_MAX

\* Mutant of ExcessiveSize: the bound itself is excessive.
ExcessiveSizeInclusive(messageSize) == messageSize >= MESSAGE_SIZE_MAX

\* messageSize > DataChannel.MESSAGE_SIZE_MAX
ExcessiveSize(messageSize) == messageSize > MESSAGE_SIZE_MAX

\* Mutant of IsNewMessage: a next tag starts a message whatever the buffer.
IsNewMessageAnyTime(d, tag) == IsNextTag(d.receivingTag, tag)

\* this._buffer === null && tag === (this._receivingTag + 1) % UINT8_MAX
IsNewMessage(d, tag) == d.buffer = NullBuffer /\ IsNextTag(d.receivingTag, tag)

\* Mutant of IdleWrongTag: the chunk is a protocol violation.
IdleWrongTagErrors(d, sync) == Error(d, "message does not start with next tag", sync)

\* No buffer and not the next tag: logged, the chunk is dropped.
IdleWrongTag(d, sync) == d

\* Mutant of TagMismatch: only the tag of an earlier message is wrong.
TagMismatchEarlier(d, tag) == tag < d.receivingTag

\* tag !== this._receivingTag
TagMismatch(d, tag) == tag # d.receivingTag

\* Mutant of ExceedsRemaining: the chunk is held against the whole buffer.
ExceedsBuffer(d, effectiveChunkLength) == effectiveChunkLength > d.buffer.byteLength

\* effectiveChunkLength > remainingBytes
ExceedsRemaining(d, effectiveChunkLength) ==
    effectiveChunkLength > d.buffer.byteLength - d.buffer.writePos

\* Mutant of ResetChunkTimeout: the msg timer is set anew as well.
ResetBothTimeouts(d, now) ==
    IF d.msgType \in DOMAIN d.expectedMessagesByType
    THEN LET expectedMsg == d.expectedMessagesByType[d.msgType]
         IN  [d EXCEPT !.timers =
                ResetTimeout(
                    ResetTimeout(@, <<"chunk", expectedMsg.id>>, expectedMsg,
                                 now + expectedMsg.chunkTimeout),
                    <<"msg", expectedMsg.id>>, expectedMsg, now + expectedMsg.msgTimeout)]
    ELSE d

\* if (expectedMsg) this._timers.resetTimeout(`chunk-${expectedMsg.id}`, ...)
ResetChunkTimeout(d, now) ==
    IF d.msgType \in DOMAIN d.expectedMessagesByType
    THEN LET expectedMsg == d.expectedMessagesByType[d.msgType]
         IN  [d EXCEPT !.timers =
                ResetTimeout(@, <<"chunk", expectedMsg.id>>, expectedMsg,
                             now + expectedMsg.chunkTimeout)]
    ELSE d

\* The reassembly step of _onMessage, from the tag check on: d has a buffer.
\* Mutant of Reassemble: a chunk without payload is dropped.
ReassembleDropsTagOnly(d, tag, chunk, now, sync) ==
    IF TagMismatch(d, tag)
    THEN Error(d, "wrong message tag", sync)
    ELSE LET remainingBytes == d.buffer.byteLength - d.buffer.writePos
             effectiveChunkLength == Len(chunk)
         IN  IF ExceedsRemaining(d, effectiveChunkLength)
             THEN Error(d, "chunk larger than remaining bytes", sync)
             ELSE IF effectiveChunkLength = 0 THEN d
             ELSE LET written == [d EXCEPT
                                    !.buffer = BufferWrite(@, chunk),
                                    !.lastChunkReceivedAt = now]
                  IN  IF remainingBytes - effectiveChunkLength = 0
                      THEN Fire([written EXCEPT !.buffer = NullBuffer],
                                "message", written.buffer.bytes, "")
                      ELSE LET armed == ResetChunkTimeout(written, now)
                           IN  Fire(armed, "chunk", armed.buffer.bytes, "")

Reassemble(d, tag, chunk, now, sync) ==
    IF TagMismatch(d, tag)
    THEN Error(d, "wrong message tag", sync)
    ELSE LET remainingBytes == d.buffer.byteLength - d.buffer.writePos
             effectiveChunkLength == Len(chunk)
         IN  IF ExceedsRemaining(d, effectiveChunkLength)
             THEN Error(d, "chunk larger than remaining bytes", sync)
             ELSE LET written == [d EXCEPT
                                    !.buffer = BufferWrite(@, chunk),
                                    !.lastChunkReceivedAt = now]
                  IN  IF remainingBytes - effectiveChunkLength = 0
                      THEN Fire([written EXCEPT !.buffer = NullBuffer],
                                "message", written.buffer.bytes, "")
                      ELSE LET armed == ResetChunkTimeout(written, now)
                           IN  Fire(armed, "chunk", armed.buffer.bytes, "")

\* Mutant of SilentlyDropped: only empty chunks are dropped.
SilentlyDroppedIfEmpty(d, msg) == Len(msg) = 0

\* this.readyState !== OPEN, or buffer.byteLength === 0: return.
SilentlyDropped(d, msg) == d.readyState # OPEN \/ Len(msg) = 0

\* _onMessage(msg)
OnMessage(d, msg, now, sync) ==
    IF SilentlyDropped(d, msg) THEN d
    ELSE IF ChunkTooLarge(msg)
    THEN Error(d, "chunk larger than maximum chunk size", sync)
    ELSE LET tag == msg[1]
             chunk == SubSeq(msg, 2, Len(msg))
             isNew == IsNewMessage(d, tag)
         IN  IF isNew /\ PeekLengthThrows(chunk)
             THEN Error(d, "error while parsing", sync)
             ELSE IF isNew /\ ExcessiveSize(PeekLength(chunk))
             THEN Error(d, "excessive message size", sync)
             ELSE LET started ==
                         IF isNew
                         THEN [d EXCEPT !.buffer = NewSerialBuffer(PeekLength(chunk)),
                                        !.receivingTag = tag,
                                        !.msgType = PeekType(chunk)]
                         ELSE d
                  IN  IF started.buffer = NullBuffer
                      THEN IdleWrongTag(started, sync)
                      ELSE Reassemble(started, tag, chunk, now, sync)

\* The DataChannel constructor, on a transport that is open, with subscribers.
\* What the last step made visible outside the channel is kept with it: the
\* events its subscribers observed, the timeout callbacks invoked, the chunks
\* handed to sendChunk, the messages send() took, the typed events of the PeerChannel on top of it and
\* the close type the PeerChannel closed it with.
NewDataChannel ==
    [ buffer |-> NullBuffer,
      msgType |-> 0,
      receivingTag |-> -1,
      sendingTag |-> 0,
      expectedMessagesByType |-> EmptyMap,
      timers |-> {},
      lastChunkReceivedAt |-> 0,
      readyState |-> OPEN,
      listeners |-> TRUE,
      events |-> << >>,
      callbacks |-> << >>,
      seen |-> << >>,
      out |-> << >>,
      sent |-> << >>,
      peerEvents |-> << >>,
      closeType |-> 0 ]

\* A step starts with nothing observed yet.
Begin(d) ==
    [d EXCEPT !.events = << >>, !.callbacks = << >>, !.seen = << >>, !.out = << >>,
              !.sent = << >>, !.peerEvents = << >>]

\* isExpectingMessage(type)
IsExpectingMessage(d, type) == type \in DOMAIN d.expectedMessagesByType

\* Map.delete for every type of an expectation.
DeleteTypes(map, types) ==
    [t \in DOMAIN map \ { types[i] : i \in 1..Len(types) } |-> map[t]]

\* Map.set(type, expectedMsg) for every type, in order.
SetTypes(map, types, expectedMsg) ==
    [t \in DOMAIN map \cup { types[i] : i \in 1..Len(types) } |->
        IF \E i \in 1..Len(types) : types[i] = t THEN expectedMsg ELSE map[t]]

\* new ExpectedMessage(types, timeoutCallback, msgTimeout, chunkTimeout)
ExpectedMessage(types, timeoutCallback, msgTimeout, chunkTimeout) ==
    [ id |-> types, types |-> types, timeoutCallback |-> timeoutCallback,
      msgTimeout |-> msgTimeout, chunkTimeout |-> chunkTimeout ]

\* A timer or a map entry leads to the expectation.
Pending(d, expectedMsg) ==
    \/ \E t \in d.timers : t.exp = expectedMsg
    \/ \E type \in DOMAIN d.expectedMessagesByType :
          d.expectedMessagesByType[type] = expectedMsg

\* expectedMsg.timeoutCallback(); seen: whether the callback finds its
\* expectation still pending on the channel.
InvokeCallback(d, expectedMsg) ==
    [d EXCEPT !.callbacks = Append(@, expectedMsg.timeoutCallback),
              !.seen = Append(@, Pending(d, expectedMsg))]

\* Mutant of ConfirmExpectedMessage: only the confirmed type is deleted.
ConfirmDeletesOneType(d, type, success) ==
    IF ~IsExpectingMessage(d, type) THEN d
    ELSE LET expectedMsg == d.expectedMessagesByType[type]
             retired == [d EXCEPT
                 !.timers = ClearTimeout(ClearTimeout(@, <<"chunk", expectedMsg.id>>),
                                         <<"msg", expectedMsg.id>>),
                 !.expectedMessagesByType = DeleteTypes(@, << type >>)]
         IN  IF ~success THEN InvokeCallback(retired, expectedMsg) ELSE retired

\* Mutant of ConfirmExpectedMessage: without a match every timer is cleared.
ConfirmUnmatchedClearsTimers(d, type, success) ==
    IF ~IsExpectingMessage(d, type) THEN [d EXCEPT !.timers = {}]
    ELSE LET expectedMsg == d.expectedMessagesByType[type]
             retired == [d EXCEPT
                 !.timers = ClearTimeout(ClearTimeout(@, <<"chunk", expectedMsg.id>>),
                                         <<"msg", expectedMsg.id>>),
                 !.expectedMessagesByType = DeleteTypes(@, expectedMsg.types)]
         IN  IF ~success THEN InvokeCallback(retired, expectedMsg) ELSE retired

\* Mutant of ConfirmExpectedMessage: the callback runs before the removal.
ConfirmInvokesFirst(d, type, success) ==
    IF ~IsExpectingMessage(d, type) THEN d
    ELSE LET expectedMsg == d.expectedMessagesByType[type]
             invoked == IF ~success THEN InvokeCallback(d, expectedMsg) ELSE d
         IN  [invoked EXCEPT
                 !.timers = ClearTimeout(ClearTimeout(@, <<"chunk", expectedMsg.id>>),
                                         <<"msg", expectedMsg.id>>),
                 !.expectedMessagesByType = DeleteTypes(@, expectedMsg.types)]

\* confirmExpectedMessage(type, success)
ConfirmExpectedMessage(d, type, success) ==
    IF ~IsExpectingMessage(d, type) THEN d
    ELSE LET expectedMsg == d.expectedMessagesByType[type]
             retired == [d EXCEPT
                 !.timers = ClearTimeout(ClearTimeout(@, <<"chunk", expectedMsg.id>>),
                                         <<"msg", expectedMsg.id>>),
                 !.expectedMessagesByType = DeleteTypes(@, expectedMsg.types)]
         IN  IF ~success THEN InvokeCallback(retired, expectedMsg) ELSE retired

\* Mutant of ExpectMessage: a type that is registered already keeps its
\* expectation.
ExpectMessageKeepsExisting(d, types, timeoutCallback, msgTimeout, chunkTimeout, now) ==
    IF Len(types) = 0 THEN d
    ELSE LET expectedMsg == ExpectedMessage(types, timeoutCallback, msgTimeout, chunkTimeout)
             map == d.expectedMessagesByType
         IN  [d EXCEPT
                 !.expectedMessagesByType =
                     [t \in DOMAIN map \cup { types[i] : i \in 1..Len(types) } |->
                         IF t \in DOMAIN map THEN map[t] ELSE expectedMsg],
                 !.timers = ResetTimeout(
                               ResetTimeout(@, <<"chunk", expectedMsg.id>>, expectedMsg,
                                            now + chunkTimeout),
                               <<"msg", expectedMsg.id>>, expectedMsg, now + msgTimeout)]

\* Mutant of ExpectMessage: only the chunk timer is set.
ExpectMessageChunkTimer(d, types, timeoutCallback, msgTimeout, chunkTimeout, now) ==
    IF Len(types) = 0 THEN d
    ELSE LET expectedMsg == ExpectedMessage(types, timeoutCallback, msgTimeout, chunkTimeout)
         IN  [d EXCEPT
                 !.expectedMessagesByType = SetTypes(@, types, expectedMsg),
                 !.timers = ResetTimeout(@, <<"chunk", expectedMsg.id>>, expectedMsg,
                                         now + chunkTimeout)]

\* expectMessage(types, timeoutCallback, msgTimeout, chunkTimeout)
ExpectMessage(d, types, timeoutCallback, msgTimeout, chunkTimeout, now) ==
    IF Len(types) = 0 THEN d
    ELSE LET expectedMsg == ExpectedMessage(types, timeoutCallback, msgTimeout, chunkTimeout)
         IN  [d EXCEPT
                 !.expectedMessagesByType = SetTypes(@, types, expectedMsg),
                 !.timers = ResetTimeout(
                               ResetTimeout(@, <<"chunk", expectedMsg.id>>, expectedMsg,
                                            now + chunkTimeout),
                               <<"msg", expectedMsg.id>>, expectedMsg, now + msgTimeout)]

\* Mutant of OnTimeout: the buffer is kept.
OnTimeoutKeepsBuffer(d, expectedMsg) ==
    LET retired == [d EXCEPT
            !.timers = ClearTimeout(ClearTimeout(@, <<"chunk", expectedMsg.id>>),
                                    <<"msg", expectedMsg.id>>),
            !.expectedMessagesByType = DeleteTypes(@, expectedMsg.types)]
    IN  InvokeCallback(retired, expectedMsg)

\* Mutant of OnTimeout: the receiver starts over with its tags.
OnTimeoutResetsTag(d, expectedMsg) ==
    LET retired == [d EXCEPT
            !.timers = ClearTimeout(ClearTimeout(@, <<"chunk", expectedMsg.id>>),
                                    <<"msg", expectedMsg.id>>),
            !.expectedMessagesByType = DeleteTypes(@, expectedMsg.types)]
    IN  [InvokeCallback(retired, expectedMsg) EXCEPT
            !.buffer = NullBuffer, !.receivingTag = -1]

\* Mutant of OnTimeout: the timer that did not fire stays pending.
OnTimeoutKeepsTimers(d, expectedMsg) ==
    LET retired == [d EXCEPT
            !.expectedMessagesByType = DeleteTypes(@, expectedMsg.types)]
    IN  [InvokeCallback(retired, expectedMsg) EXCEPT !.buffer = NullBuffer]

\* _onTimeout(expectedMsg), bound to the expectation when the timer was set.
OnTimeout(d, expectedMsg) ==
    LET retired == [d EXCEPT
            !.timers = ClearTimeout(ClearTimeout(@, <<"chunk", expectedMsg.id>>),
                                    <<"msg", expectedMsg.id>>),
            !.expectedMessagesByType = DeleteTypes(@, expectedMsg.types)]
    IN  [InvokeCallback(retired, expectedMsg) EXCEPT !.buffer = NullBuffer]

\* send(msg) on this channel: the chunks go to sendChunk.
DataChannelSend(d, msg) ==
    IF SendThrows(msg) THEN d
    ELSE [d EXCEPT !.sendingTag = NextSendingTag(@),
                   !.out = @ \o SendChunked(msg, d.sendingTag),
                   !.sent = Append(@, ViewBytes(msg))]

(***************************************************************************)
(* PeerChannel, on top of the DataChannel d.                               *)
(***************************************************************************)
FAILED_TO_PARSE_MESSAGE_TYPE == 1
REJECT_MALFORMED == 1

\* type = null
NullType == -1

\* PeerChannel.Event as the source fills it: the member of Message.Type and
\* the event name assigned to it.
PeerChannelEvent ==
    << << "VERSION", "version" >>,
      << "INV", "inv" >>,
      << "GET_DATA", "get-data" >>,
      << "GET_HEADER", "get-header" >>,
      << "NOT_FOUND", "not-found" >>,
      << "GET_BLOCKS", "get-blocks" >>,
      << "BLOCK", "block" >>,
      << "HEADER", "header" >>,
      << "TX", "tx" >>,
      << "MEMPOOL", "mempool" >>,
      << "REJECT", "reject" >>,
      << "SUBSCRIBE", "subscribe" >>,
      << "ADDR", "addr" >>,
      << "GET_ADDR", "get-addr" >>,
      << "PING", "ping" >>,
      << "PONG", "pong" >>,
      << "SIGNAL", "signal" >>,
      << "GET_CHAIN_PROOF", "get-chain-proof" >>,
      << "CHAIN_PROOF", "chain-proof" >>,
      << "GET_ACCOUNTS_PROOF", "get-accounts-proof" >>,
      << "ACCOUNTS_PROOF", "accounts-proof" >>,
      << "GET_ACCOUNTS_TREE_CHUNK", "get-accounts-tree-chunk" >>,
      << "ACCOUNTS_TREE_CHUNK", "accounts-tree-chunk" >>,
      << "GET_TRANSACTIONS_PROOF", "get-transactions-proof" >>,
      << "TRANSACTIONS_PROOF", "transactions-proof" >>,
      << "GET_TRANSACTION_RECEIPTS", "get-transaction-receipts" >>,
      << "TRANSACTION_RECEIPTS", "transaction-receipts" >>,
      << "GET_BLOCK_PROOF", "get-block-proof" >>,
      << "BLOCK_PROOF", "block-proof" >>,
      << "GET_HEAD", "get-head" >>,
      << "HEAD", "head" >>,
      << "VERACK", "verack" >> >>

\* The member of Message.Type a type byte of the model stands for.
TypeName(type) ==
    CASE type = TYPE_BLOCK -> "BLOCK"
      [] type = TYPE_REJECT -> "REJECT"
      [] OTHER -> "none"

\* PeerChannel.Event[Message.Type.<name>]
EventOfType(name) ==
    LET rows == { i \in 1..Len(PeerChannelEvent) : PeerChannelEvent[i][1] = name }
    IN  IF rows = {} THEN "undefined"
        ELSE PeerChannelEvent[CHOOSE i \in rows : \A j \in rows : j <= i][2]

\* Mutant of PeerEvent: every message is dispatched as a block.
PeerEventBlock(type) == "block"

\* PeerChannel.Event: the event name of a message type.
PeerEvent(type) ==
    CASE type = TYPE_BLOCK -> "block"
      [] type = TYPE_REJECT -> "reject"
      [] OTHER -> "undefined"

\* close(type, reason): the connection is closed with that type.
PeerClose(d, type, sync) == Close([d EXCEPT !.closeType = type], sync)

\* reject(messageType, code, reason): a REJECT message is sent.
PeerReject(d, messageType, code) ==
    DataChannelSend(d, Serialized(TYPE_REJECT, << messageType, code >>))

\* Mutant of PeerParseFailed: a malformed REJECT is rejected like any other.
PeerParseFailedRejectsAll(d, type, sync) ==
    LET confirmed == ConfirmExpectedMessage(d, type, FALSE)
    IN  IF type = NullType
        THEN PeerClose(confirmed, FAILED_TO_PARSE_MESSAGE_TYPE, sync)
        ELSE PeerReject(confirmed, type, REJECT_MALFORMED)

\* Mutant of PeerParseFailed: the expectation is left to time out.
PeerParseFailedNoConfirm(d, type, sync) ==
    IF type = NullType \/ type = TYPE_REJECT
    THEN PeerClose(d, FAILED_TO_PARSE_MESSAGE_TYPE, sync)
    ELSE PeerReject(d, type, REJECT_MALFORMED)

\* The catch block of PeerChannel._onMessage: the frame did not parse.
PeerParseFailed(d, type, sync) ==
    LET confirmed == ConfirmExpectedMessage(d, type, FALSE)
    IN  IF type = NullType \/ type = TYPE_REJECT
        THEN PeerClose(confirmed, FAILED_TO_PARSE_MESSAGE_TYPE, sync)
        ELSE PeerReject(confirmed, type, REJECT_MALFORMED)

\* Mutant of PeerOnMessage: a subscriber that throws closes the channel.
PeerOnMessageClosesOnThrow(d, rawMsg, handlerThrows, sync) ==
    IF PeekTypeThrows(rawMsg) THEN PeerParseFailed(d, NullType, sync)
    ELSE IF ParseThrows(rawMsg) THEN PeerParseFailed(d, PeekType(rawMsg), sync)
    ELSE LET type == PeekType(rawMsg)
             confirmed == ConfirmExpectedMessage(d, type, TRUE)
             fired == [confirmed EXCEPT
                          !.peerEvents = Append(@, Event(PeerEvent(type), rawMsg, "")),
                          !.seen = Append(@, IsExpectingMessage(confirmed, type))]
         IN  IF handlerThrows THEN PeerClose(fired, 0, sync)
             ELSE [fired EXCEPT !.peerEvents =
                      Append(@, Event("message-log", rawMsg, ""))]

\* PeerChannel._onMessage(rawMsg); handlerThrows: a subscriber of the typed
\* event throws.  seen: whether that subscriber finds the type still expected.
PeerOnMessage(d, rawMsg, handlerThrows, sync) ==
    IF PeekTypeThrows(rawMsg) THEN PeerParseFailed(d, NullType, sync)
    ELSE IF ParseThrows(rawMsg) THEN PeerParseFailed(d, PeekType(rawMsg), sync)
    ELSE LET type == PeekType(rawMsg)
             confirmed == ConfirmExpectedMessage(d, type, TRUE)
             fired == [confirmed EXCEPT
                          !.peerEvents = Append(@, Event(PeerEvent(type), rawMsg, "")),
                          !.seen = Append(@, IsExpectingMessage(confirmed, type))]
         IN  IF handlerThrows THEN fired
             ELSE [fired EXCEPT !.peerEvents =
                      Append(@, Event("message-log", rawMsg, ""))]

(***************************************************************************)
(* KeyPair: a private key that can be locked under a key, as the test      *)
(* 'KeyPair' uses it.  Keys are small numbers; locking replaces the        *)
(* private key held by its exclusive-or with a pad derived from the        *)
(* locking key and a salt.                                                 *)
(***************************************************************************)
\* Private keys are 1..MaxPrivateKey, locking keys 1..MaxLockKey and salts
\* 0..MaxSalt.
MaxPrivateKey == 3
MaxLockKey == 3
MaxSalt == 1

\* No key, no salt.
Null == -1

RECURSIVE Xor(_, _)
\* The bitwise exclusive-or of two natural numbers.
Xor(a, b) ==
    IF a = 0 THEN b
    ELSE IF b = 0 THEN a
    ELSE ((a + b) % 2) + 2 * Xor(a \div 2, b \div 2)

\* The pad a locking key and a salt are stretched to: never zero, and
\* different for different keys under one salt.
Kdf(key, salt) == key * (MaxSalt + 1) + salt

\* PublicKey.derive: different private keys have different public keys.
Derive(privateKey) == << "public", privateKey >>

\* No KeyPair has been generated.  backup, lockedWith and lockedBefore record
\* the private key the pair was generated with, the key of its last lock and
\* the key of the lock before that one; op, key and error are the last call,
\* its argument and the error it threw ("" if none).
NoKeyPair ==
    [_publicKey |-> << >>, _internalPrivateKey |-> Null,
     _unlockedPrivateKey |-> Null, _locked |-> FALSE,
     _lockedInternally |-> FALSE, _lockSalt |-> Null,
     backup |-> Null, lockedWith |-> Null, lockedBefore |-> Null,
     op |-> "", key |-> Null, error |-> ""]

\* KeyPair.generate(), drawing privateKey.
KeyPairGenerate(privateKey) ==
    [NoKeyPair EXCEPT !._publicKey = Derive(privateKey),
                      !._internalPrivateKey = privateKey,
                      !.backup = privateKey, !.op = "generate"]

\* pair.isLocked
IsLocked(pair) == pair._locked

\* The private key in the clear, as the pair holds it.
PlainPrivateKey(pair) ==
    IF pair._unlockedPrivateKey # Null THEN pair._unlockedPrivateKey
    ELSE pair._internalPrivateKey

\* pair.privateKey throws.
PrivateKeyThrows(pair) == IsLocked(pair)

\* pair.privateKey, when it does not throw.
PrivateKey(pair) ==
    IF pair._lockedInternally THEN pair._unlockedPrivateKey
    ELSE pair._internalPrivateKey

\* The call op(key) threw error and changed nothing.
KeyPairThrew(pair, op, key, error) ==
    [pair EXCEPT !.op = op, !.key = key, !.error = error]

\* A lock that pads the private key as it is stored, even when the key is
\* stored padded already.
LockPadsStored(pair, key, salt) ==
    IF pair._locked THEN KeyPairThrew(pair, "lock", key, "KeyPair already locked")
    ELSE LET lockSalt == IF pair._lockSalt = Null THEN salt ELSE pair._lockSalt
         IN  [pair EXCEPT
                 !._lockSalt = lockSalt,
                 !._internalPrivateKey =
                     Xor(pair._internalPrivateKey, Kdf(key, lockSalt)),
                 !._unlockedPrivateKey = Null,
                 !._locked = TRUE, !._lockedInternally = TRUE,
                 !.lockedWith = key, !.lockedBefore = pair.lockedWith,
                 !.op = "lock", !.key = key, !.error = ""]

\* pair.lock(key); salt is the salt drawn when the pair has none yet.
Lock(pair, key, salt) ==
    IF pair._locked THEN KeyPairThrew(pair, "lock", key, "KeyPair already locked")
    ELSE LET lockSalt == IF pair._lockSalt = Null THEN salt ELSE pair._lockSalt
         IN  [pair EXCEPT
                 !._lockSalt = lockSalt,
                 !._internalPrivateKey =
                     Xor(PlainPrivateKey(pair), Kdf(key, lockSalt)),
                 !._unlockedPrivateKey = Null,
                 !._locked = TRUE, !._lockedInternally = TRUE,
                 !.lockedWith = key, !.lockedBefore = pair.lockedWith,
                 !.op = "lock", !.key = key, !.error = ""]

\* An unlock that does not compare the public key of what it recovers.
UnlockUnverified(pair, key) ==
    IF ~pair._locked THEN KeyPairThrew(pair, "unlock", key, "KeyPair not locked")
    ELSE [pair EXCEPT
             !._unlockedPrivateKey =
                 Xor(pair._internalPrivateKey, Kdf(key, pair._lockSalt)),
             !._locked = FALSE,
             !.op = "unlock", !.key = key, !.error = ""]

\* pair.unlock(key)
Unlock(pair, key) ==
    IF ~pair._locked THEN KeyPairThrew(pair, "unlock", key, "KeyPair not locked")
    ELSE LET privateKey == Xor(pair._internalPrivateKey, Kdf(key, pair._lockSalt))
         IN  IF Derive(privateKey) = pair._publicKey
             THEN [pair EXCEPT !._unlockedPrivateKey = privateKey,
                               !._locked = FALSE,
                               !.op = "unlock", !.key = key, !.error = ""]
             ELSE KeyPairThrew(pair, "unlock", key, "Invalid key")

\* pair.relock()
Relock(pair) ==
    IF pair._locked THEN KeyPairThrew(pair, "relock", Null, "KeyPair already locked")
    ELSE IF ~pair._lockedInternally
    THEN KeyPairThrew(pair, "relock", Null, "KeyPair was never locked")
    ELSE [pair EXCEPT !._unlockedPrivateKey = Null, !._locked = TRUE,
                      !.op = "relock", !.key = Null, !.error = ""]

(***************************************************************************)
(* GenesisConfig: the class of GenesisConfig.js or, in an offline build,   *)
(* of GenesisConfigOffline.js.                                             *)
(***************************************************************************)
\* Network ids are 0..MaxNetworkId; 0, like a missing id, is falsy.
MaxNetworkId == 2

\* The class is not loaded.  _config is << >> while undefined; op, arg and
\* error are the last call, its argument and the error it threw ("" if none);
\* succeeded counts the calls of init that returned, and rejected tells that
\* a call has thrown for a missing field.
NoGenesisConfig ==
    [file |-> "", _config |-> << >>, op |-> "", arg |-> << >>, error |-> "",
     succeeded |-> 0, rejected |-> FALSE]

\* The errors init throws for a config with a field missing.
MissingField ==
    { "Config is missing network id", "Config is missing network name",
      "Config is missing genesis block", "Config is missing seed peers" }

\* A config object: a NETWORK_NAME of "", a GENESIS_BLOCK of 0 and SEED_PEERS
\* of Null stand for a missing field; SEED_PEERS is otherwise the length of
\* the array.
Config(id, name, block, peers) ==
    [NETWORK_ID |-> id, NETWORK_NAME |-> name, GENESIS_BLOCK |-> block,
     SEED_PEERS |-> peers]

\* GenesisConfig.CONFIGS of either file.
CONFIGS(file) ==
    IF file = "GenesisConfig.js"
    THEN [main |-> Config(1, "main", 1, 0), dev |-> Config(2, "dev", 2, 0)]
    ELSE [main |-> Config(1, "main", 0, Null), dev |-> Config(2, "dev", 0, Null)]

\* The error init(config) throws, "" if none.
GenesisInitError(g, config) ==
    IF g._config # << >> THEN "GenesisConfig already initialized"
    ELSE IF config.NETWORK_ID = 0 THEN "Config is missing network id"
    ELSE IF config.NETWORK_NAME = "" THEN "Config is missing network name"
    ELSE IF g.file = "GenesisConfig.js" /\ config.GENESIS_BLOCK = 0
    THEN "Config is missing genesis block"
    ELSE IF g.file = "GenesisConfig.js" /\ config.SEED_PEERS = Null
    THEN "Config is missing seed peers"
    ELSE ""

\* An init that replaces the config of an initialized class.
GenesisInitAgain(g, op, config) ==
    LET error == GenesisInitError([g EXCEPT !._config = << >>], config)
    IN  [g EXCEPT !._config = IF error = "" THEN << config >> ELSE @,
                  !.succeeded = IF error = "" THEN @ + 1 ELSE @,
                  !.rejected = @ \/ error \in MissingField,
                  !.op = op, !.arg = << config >>, !.error = error]

\* GenesisConfig.init(config), called as op.
GenesisInit(g, op, config) ==
    LET error == GenesisInitError(g, config)
    IN  [g EXCEPT !._config = IF error = "" THEN << config >> ELSE @,
                  !.succeeded = IF error = "" THEN @ + 1 ELSE @,
                  !.rejected = @ \/ error \in MissingField,
                  !.op = op, !.arg = << config >>, !.error = error]

\* The getters NETWORK_ID and NETWORK_NAME throw 'GenesisConfig not
\* initialized'.
GenesisGetterThrows(g) == g._config = << >>

\* GenesisConfig.NETWORK_ID and GenesisConfig.NETWORK_NAME, when they return.
NETWORK_ID(g) == g._config[1].NETWORK_ID

NETWORK_NAME(g) == g._config[1].NETWORK_NAME

(***************************************************************************)
(* NetworkConfig: the key pair of a node, read from a PeerKeyStore or      *)
(* generated and stored there.  The calls of initPersistent and            *)
(* initVolatile are asynchronous: each stops at its awaits, where the      *)
(* other calls run.                                                        *)
(***************************************************************************)
\* The calls of initPersistent and initVolatile on one NetworkConfig.
MaxInits == 2

\* A NetworkConfig after its constructor.  store is the entry 'keys' of the
\* persistent PeerKeyStore; calls are the init calls made so far; generated
\* counts the calls of KeyPair.generate, and the n-th key pair is n.
NewNetworkConfig ==
    [_keyPair |-> Null, _peerId |-> Null, store |-> Null, calls |-> << >>,
     generated |-> 0]

\* keys.publicKey.toPeerId()
ToPeerId(keys) == << "peer", keys >>

\* A call: the store it uses, where it is, the entry 'keys' of its own
\* volatile store, and its local variable keys.
InitCall(kind, pc) == [kind |-> kind, pc |-> pc, volatile |-> Null, keys |-> Null]

\* _init(db) up to its first await: it returns when a key pair is set, and
\* calls db.get('keys') otherwise.
NetworkInitEnter(n, i) ==
    [n EXCEPT !.calls[i].pc = IF n._keyPair # Null THEN "done" ELSE "get"]

\* initPersistent(), up to `await PeerKeyStore.getPersistent()`.
InitPersistent(n) == [n EXCEPT !.calls = Append(@, InitCall("persistent", "open"))]

\* initVolatile(), up to the first await of _init.
InitVolatile(n) ==
    NetworkInitEnter([n EXCEPT !.calls = Append(@, InitCall("volatile", "open"))],
                     Len(n.calls) + 1)

\* db.get('keys') of call i.
DbGet(n, i) ==
    IF n.calls[i].kind = "persistent" THEN n.store ELSE n.calls[i].volatile

\* db.put('keys', keys) of call i takes effect.
DbPut(n, i) ==
    IF n.calls[i].kind = "persistent"
    THEN [n EXCEPT !.store = n.calls[i].keys, !.calls[i].pc = "stored"]
    ELSE [n EXCEPT !.calls[i].volatile = n.calls[i].keys, !.calls[i].pc = "stored"]

\* The last two statements of _init, in call i.
NetworkInitSet(n, i) ==
    [n EXCEPT !._keyPair = n.calls[i].keys,
              !._peerId = ToPeerId(n.calls[i].keys),
              !.calls[i].pc = "done"]

\* Call i goes on after the await it stopped at.
NetworkInitResume(n, i) ==
    LET call == n.calls[i]
    IN  CASE call.pc = "open" -> NetworkInitEnter(n, i)
          [] call.pc = "get" ->
                LET keys == DbGet(n, i)
                IN  IF keys = Null
                    THEN [n EXCEPT !.generated = @ + 1,
                                   !.calls[i].keys = n.generated + 1,
                                   !.calls[i].pc = "put"]
                    ELSE NetworkInitSet([n EXCEPT !.calls[i].keys = keys], i)
          [] call.pc = "put" -> DbPut(n, i)
          [] call.pc = "stored" -> NetworkInitSet(n, i)
          [] OTHER -> n

(***************************************************************************)
(* The system: a sending peer, the transport, the receiving DataChannel.   *)
(***************************************************************************)
VARIABLES
    sendingTag,   \* the sending peer's _sendingTag
    wire,         \* chunks the sender handed to sendChunk, not yet delivered
    dc,           \* the receiving DataChannel
    clock,        \* Date.now()
    last,         \* the chunk or frame the last step handed to the receiver
    act,          \* what the last step was
    started,      \* the sender has sent a message
    faults,       \* how many times the transport has lost or reordered chunks
    lost,         \* the chunk the transport has lost
    hist,         \* what has happened to the receiver's expectations so far
    keyPair,      \* a KeyPair and what its last call returned
    genesisConfig,  \* the GenesisConfig class and what its last call threw
    networkConfig \* a NetworkConfig, its key store and its init calls under way

vars == << sendingTag, wire, dc, clock, last, act, started, faults, lost, hist,
           keyPair, genesisConfig, networkConfig >>

\* The variables of the DataChannel and its peer.
channel == << sendingTag, wire, dc, clock, last, started, faults, lost, hist >>

\* No call of confirmExpectedMessage.
NoCall == [type |-> 0, success |-> TRUE, matched |-> 0]

\* Nothing has happened yet: no expectMessage call (armed), no invocation of
\* a timeout callback (invoked, per call), no message given up (aborted), no
\* expectation retired by a successful confirmExpectedMessage (retired); call
\* holds the arguments when the last step was confirmExpectedMessage, and the
\* callback of the expectation that was registered under the type, if any.
\* threw: a subscriber of a typed PeerChannel event has thrown.
NoHistory ==
    [armed |-> << >>, invoked |-> << >>, aborted |-> -1, retired |-> {},
     call |-> NoCall, threw |-> FALSE]

\* A chunk in transit: its bytes; which message it was cut from, whether it is
\* that message's first or last chunk, whether that message is the sender's
\* first, and whether the chunk comes after a place where the transport lost
\* or reordered chunks.
WireEntry(bytes, of, head, final, first, after) ==
    [bytes |-> bytes, of |-> of, head |-> head, final |-> final,
     first |-> first, after |-> after]

NoEntry == WireEntry(<< >>, << >>, FALSE, FALSE, FALSE, FALSE)

WireEntries(msg, tag, first, after) ==
    LET chunks == SendChunked(msg, tag)
    IN  [i \in 1..Len(chunks) |->
            WireEntry(chunks[i], ViewBytes(msg), i = 1, i = Len(chunks), first, after)]

\* The messages that have chunks in transit.
InFlight(w) == Cardinality({ i \in 1..Len(w) : w[i].final })

Init ==
    /\ sendingTag = 0
    /\ wire = << >>
    /\ dc = NewDataChannel
    /\ clock = 0
    /\ last = NoEntry
    /\ act = "init"
    /\ started = FALSE
    /\ faults = 0
    /\ lost = NoEntry
    /\ hist = NoHistory
    /\ keyPair = NoKeyPair
    /\ genesisConfig = NoGenesisConfig
    /\ networkConfig = NewNetworkConfig

\* send(msg) on the sending channel.
Send(msg) ==
    /\ ~SendThrows(msg)
    /\ InFlight(wire) < MaxInFlight
    /\ wire' = wire \o WireEntries(msg, sendingTag, ~started, faults > 0)
    /\ sendingTag' = NextSendingTag(sendingTag)
    /\ started' = TRUE
    /\ act' = "send"
    /\ UNCHANGED << dc, clock, last, faults, lost, hist,
                 keyPair, genesisConfig, networkConfig >>

\* The transport delivers its oldest chunk: _onMessage on the receiver.
Deliver ==
    /\ wire # << >>
    /\ \E sync \in BOOLEAN :
          dc' = OnMessage(Begin(dc), Head(wire).bytes, clock, sync)
    /\ last' = Head(wire)
    /\ wire' = Tail(wire)
    /\ act' = "chunk"
    /\ UNCHANGED << sendingTag, clock, started, faults, lost, hist,
                 keyPair, genesisConfig, networkConfig >>

SendAny == \E msg \in ValidMessages : Send(msg)

Next == SendAny \/ Deliver

\* Valid sends over a transport that delivers every chunk, in order.
Spec == Init /\ [][Next]_vars

\* The transport reports that it has closed: _onClose.
TransportClosed ==
    /\ dc.readyState = CLOSING
    /\ dc' = OnClose([Begin(dc) EXCEPT !.readyState = CLOSED])
    /\ act' = "closed"
    /\ UNCHANGED << sendingTag, wire, clock, last, started, faults, lost, hist,
                 keyPair, genesisConfig, networkConfig >>

(***************************************************************************)
(* The sending DataChannel alone: send() with byte arrays of every length. *)
(***************************************************************************)
\* The byte arrays send() is called with: of every length send() takes, the
\* empty one included.
RawMessages ==
    { Uint8Array(Payload(n, k), 0, n) : n \in 0..MESSAGE_SIZE_MAX, k \in {0, 1} }

\* The chunk emitted last, if any.
LastEmitted(w) == IF w = << >> THEN << >> ELSE << w[Len(w)] >>

\* send(msg) on the sending channel; the chunk emitted before this call is
\* kept in front of the chunks this call emits.
Emit(msg) ==
    /\ ~SendThrows(msg)
    /\ wire' = LastEmitted(wire) \o WireEntries(msg, sendingTag, ~started, FALSE)
    /\ sendingTag' = NextSendingTag(sendingTag)
    /\ started' = TRUE
    /\ last' = WireEntry(ViewBytes(msg), ViewBytes(msg), FALSE, FALSE, ~started, FALSE)
    /\ act' = "send"
    /\ UNCHANGED << dc, clock, faults, lost, hist,
                 keyPair, genesisConfig, networkConfig >>

EmitAny == \E msg \in RawMessages : Emit(msg)

NextOutbound == EmitAny

SpecOutbound == Init /\ [][NextOutbound]_vars

\* Arrays longer than send() accepts.
OversizedMessages ==
    { Uint8Array(Payload(n, k), 0, n) :
        n \in (MESSAGE_SIZE_MAX + 1)..(MESSAGE_SIZE_MAX + 2), k \in {0, 1} }

\* send(msg) fails in Assert.that: nothing after the assertion is executed.
Refuse(msg) ==
    /\ SendThrows(msg)
    /\ last' = WireEntry(ViewBytes(msg), ViewBytes(msg), FALSE, FALSE, ~started, FALSE)
    /\ act' = "assert"
    /\ UNCHANGED << sendingTag, wire, dc, clock, started, faults, lost, hist,
                 keyPair, genesisConfig, networkConfig >>

RefuseAny == \E msg \in RawMessages \cup OversizedMessages : Refuse(msg)

EmitAnySize == \E msg \in RawMessages \cup OversizedMessages : Emit(msg)

\* Uint8Array views send() may be handed: a whole buffer, or the bytes of a
\* buffer from its second byte on.
ViewMessages ==
    { Uint8Array(Payload(byteOffset + n, k), byteOffset, n) :
        byteOffset \in {0, 1}, n \in 1..(MESSAGE_SIZE_MAX - 1), k \in {0, 1} }

EmitView == \E msg \in ViewMessages : Emit(msg)

NextViews == EmitView

\* send() called with views of buffers.
SpecViews == Init /\ [][NextViews]_vars

NextSend == EmitAnySize \/ RefuseAny

\* send() called with arrays of any length, too long ones included.
SpecSend == Init /\ [][NextSend]_vars

(***************************************************************************)
(* A transport that, once, loses a chunk or exchanges two chunks.          *)
(***************************************************************************)
\* How many messages the sender sends over this transport.
MaxSends == 2

\* The chunks from position i on come after the fault.
MarkAfter(w, i) == [k \in 1..Len(w) |-> IF k >= i THEN [w[k] EXCEPT !.after = TRUE] ELSE w[k]]

\* The transport loses the chunk at position i.
Drop(i) ==
    /\ faults = 0
    /\ i \in 1..Len(wire)
    /\ wire' = MarkAfter(SubSeq(wire, 1, i - 1) \o SubSeq(wire, i + 1, Len(wire)), i)
    /\ lost' = wire[i]
    /\ faults' = faults + 1
    /\ act' = "drop"
    /\ UNCHANGED << sendingTag, dc, clock, last, started, hist,
                 keyPair, genesisConfig, networkConfig >>

\* The transport exchanges the chunks at positions i and j.
Swap(i, j) ==
    /\ faults = 0
    /\ i \in 1..Len(wire) /\ j \in 1..Len(wire) /\ i < j
    /\ wire[i].bytes # wire[j].bytes
    /\ wire' = MarkAfter([wire EXCEPT ![i] = wire[j], ![j] = wire[i]], i)
    /\ faults' = faults + 1
    /\ act' = "swap"
    /\ UNCHANGED << sendingTag, dc, clock, last, started, lost, hist,
                 keyPair, genesisConfig, networkConfig >>

DropAny == \E i \in 1..Len(wire) : Drop(i)

SwapAny == \E i \in 1..Len(wire), j \in 1..Len(wire) : Swap(i, j)

\* The sending tag counts the messages sent as long as it has not wrapped.
SendFew == \E msg \in ValidMessages : sendingTag < MaxSends /\ Send(msg)

NextLossy == SendFew \/ Deliver \/ DropAny \/ SwapAny \/ TransportClosed

SpecLossy == Init /\ [][NextLossy]_vars

(***************************************************************************)
(* The PeerChannel on top of the receiving DataChannel: whole frames come  *)
(* up from the channel's 'message' event, well-formed or not.              *)
(***************************************************************************)
\* Ways a frame can be malformed.
Corruptions == {"none", "magic", "checksum", "length", "cut"}

Corrupt(bytes, c) ==
    CASE c = "magic" -> [bytes EXCEPT ![MAGIC_POS] = 0]
      [] c = "checksum" -> [bytes EXCEPT ![CHECKSUM_POS] = (@ + 1) % (UINT8_MAX + 1)]
      [] c = "length" -> [bytes EXCEPT ![LENGTH_POS] = @ + 1]
      [] c = "cut" -> SubSeq(bytes, 1, MAGIC_POS)
      [] OTHER -> bytes

\* The frames a peer may send: of a known or an unknown type, intact or not.
PeerFrames ==
    { Corrupt(Serialize(t, p), c) :
        t \in Types \cup {TYPE_UNKNOWN}, p \in {<<1>>}, c \in Corruptions }

\* The timeout callbacks a caller passes to expectMessage.
Callbacks == {"cb1", "cb2"}

\* The type lists a caller passes to expectMessage.
TypeLists ==
    { << >>, <<TYPE_BLOCK>>, <<TYPE_REJECT>>,
      <<TYPE_BLOCK, TYPE_REJECT>>, <<TYPE_REJECT, TYPE_BLOCK>> }

\* The channel's 'message' event reaches PeerChannel._onMessage.
PeerReceive(frame) ==
    /\ dc.readyState = OPEN
    /\ dc.listeners
    /\ \E handlerThrows \in BOOLEAN, sync \in BOOLEAN :
          /\ dc' = PeerOnMessage(Begin(dc), frame, handlerThrows, sync)
          /\ hist' = [hist EXCEPT !.threw = @ \/ (handlerThrows /\ ~ParseThrows(frame))]
    /\ last' = WireEntry(frame, frame, TRUE, TRUE, FALSE, FALSE)
    /\ act' = "frame"
    /\ UNCHANGED << sendingTag, wire, clock, started, faults, lost,
                 keyPair, genesisConfig, networkConfig >>

\* PeerChannel.expectMessage(types, timeoutCallback): the default timeouts.
PeerExpect(types, cb) ==
    /\ dc' = ExpectMessage(Begin(dc), types, cb, MESSAGE_TIMEOUT, CHUNK_TIMEOUT, clock)
    /\ last' = NoEntry
    /\ act' = "expect"
    /\ UNCHANGED << sendingTag, wire, clock, started, faults, lost, hist,
                 keyPair, genesisConfig, networkConfig >>

PeerReceiveAny == \E frame \in PeerFrames : PeerReceive(frame)

\* The expectations the layer above the PeerChannel arms.
PeerTypeLists == { <<TYPE_BLOCK>>, <<TYPE_REJECT, TYPE_BLOCK>> }

PeerExpectAny == \E types \in PeerTypeLists, cb \in Callbacks : PeerExpect(types, cb)

NextPeer == PeerReceiveAny \/ PeerExpectAny \/ TransportClosed

SpecPeer == Init /\ [][NextPeer]_vars

(***************************************************************************)
(* The receiving DataChannel under arbitrary inbound chunks.               *)
(***************************************************************************)
\* seq cut or filled up with zero bytes to n bytes.
Pad(seq, n) == [i \in 1..n |-> IF i <= Len(seq) THEN seq[i] ELSE 0]

\* Message lengths a first chunk declares.
DeclaredLengths ==
    {0, CHUNK_SIZE_MAX - 1, CHUNK_SIZE_MAX, MESSAGE_SIZE_MAX, MESSAGE_SIZE_MAX + 1}

\* Payloads of inbound chunks: none, a header cut short, a header with a wrong
\* magic, full-size payloads starting with a header, and payloads of one
\* byte, of the largest legal size and of one byte more.
InboundPayloads ==
    { << >>, << MAGIC, TYPE_BLOCK >> }
    \cup { Pad(<< 0, TYPE_BLOCK, CHUNK_SIZE_MAX >>, CHUNK_SIZE_MAX - 1) }
    \cup { Pad(<< MAGIC, TYPE_BLOCK, n >>, CHUNK_SIZE_MAX - 1) : n \in DeclaredLengths }
    \cup { Pad(<< 0 >>, n) : n \in {1, CHUNK_SIZE_MAX - 1, CHUNK_SIZE_MAX} }

\* Tag bytes of inbound chunks: the first tags, and the byte no send uses.
InboundTags == {0, 1, 2, UINT8_MAX}

\* The chunks a peer may put on the transport: empty, or a tag byte followed
\* by one of these payloads.
InboundChunks ==
    { << >> } \cup { << tag >> \o p : tag \in InboundTags, p \in InboundPayloads }

\* The transport hands a chunk to _onMessage.
Inject(chunk) ==
    /\ \E sync \in BOOLEAN :
          dc' = OnMessage(Begin(dc), chunk, clock, sync)
    /\ last' = WireEntry(chunk, << >>, FALSE, FALSE, FALSE, FALSE)
    /\ act' = "chunk"
    /\ hist' = [hist EXCEPT !.call = NoCall]
    /\ UNCHANGED << sendingTag, wire, clock, started, faults, lost,
                 keyPair, genesisConfig, networkConfig >>

InjectAny == \E chunk \in InboundChunks : Inject(chunk)

\* Date.now() advances.
Tick ==
    /\ clock < MaxClock
    /\ clock' = clock + 1
    /\ act' = "tick"
    /\ hist' = [hist EXCEPT !.call = NoCall]
    /\ UNCHANGED << sendingTag, wire, dc, last, started, faults, lost,
                 keyPair, genesisConfig, networkConfig >>

NextInbound == InjectAny \/ TransportClosed

SpecInbound == Init /\ [][NextInbound]_vars

(***************************************************************************)
(* Valid sends, and now and then a chunk that no send emitted.             *)
(***************************************************************************)
\* Tag bytes of stray chunks: the first and the last tags, and the byte no
\* send uses.
StrayTags == {0, 1, UINT8_MAX - 1, UINT8_MAX}

\* Chunks of a foreign origin: a whole one-chunk message under these tags.
StrayChunks ==
    { << tag >> \o Pad(<< MAGIC, TYPE_BLOCK, CHUNK_SIZE_MAX - 1 >>, CHUNK_SIZE_MAX - 1) :
        tag \in StrayTags }

\* A stray chunk arrives while nothing else is in transit.
StrayAny == \E chunk \in StrayChunks : wire = << >> /\ Inject(chunk)

NextTags == SendAny \/ Deliver \/ StrayAny

SpecTags == Init /\ [][NextTags]_vars

(***************************************************************************)
(* The receiving DataChannel with expectations, their timers, a clock and  *)
(* the ways a channel closes.                                              *)
(***************************************************************************)
\* How many times expectMessage is called.
MaxExpectations == 2

\* The message whose chunks arrive: a block one byte too long for one chunk.
TimedMessage == Serialized(TYPE_BLOCK, Payload(CHUNK_SIZE_MAX + 1 - HEADER_SIZE, 0))

\* The chunks that arrive: none at all (an empty chunk), or a chunk of that
\* message sent under tag 0 or under tag 1.
TimedChunks ==
    { << >> }
    \cup { SendChunked(TimedMessage, tag)[i] :
              tag \in {0, 1}, i \in 1..Len(SendChunked(TimedMessage, 0)) }

\* The (msgTimeout, chunkTimeout) pairs a caller passes: the defaults, and
\* a chunk timeout longer than the message timeout.
TimeoutPairs ==
    { << MESSAGE_TIMEOUT, CHUNK_TIMEOUT >>, << CHUNK_TIMEOUT, MESSAGE_TIMEOUT >> }

\* The timers that have run out.
TimersDue(d, now) == { t \in d.timers : t.due <= now }

\* The callbacks invoked in the step that led to d2, counted per call of
\* expectMessage.
Invoked(h, d2) ==
    [h EXCEPT !.invoked =
        [k \in DOMAIN @ |->
            @[k] + Cardinality({ i \in 1..Len(d2.callbacks) : d2.callbacks[i] = k })]]

\* expectMessage(types, cb, msgTimeout, chunkTimeout); the callback of the
\* k-th call is a function of its own, named k.
Arm(types, msgTimeout, chunkTimeout) ==
    /\ Len(hist.armed) < MaxExpectations
    /\ dc' = ExpectMessage(Begin(dc), types, Len(hist.armed) + 1,
                           msgTimeout, chunkTimeout, clock)
    /\ hist' = [hist EXCEPT
                   !.armed = Append(@, [at |-> clock, types |-> types,
                                        msgTimeout |-> msgTimeout,
                                        chunkTimeout |-> chunkTimeout]),
                   !.invoked = Append(@, 0),
                   !.call = NoCall]
    /\ last' = NoEntry
    /\ act' = "expect"
    /\ UNCHANGED << sendingTag, wire, clock, started, faults, lost,
                 keyPair, genesisConfig, networkConfig >>

\* confirmExpectedMessage(type, success)
Confirm(type, success) ==
    /\ dc' = ConfirmExpectedMessage(Begin(dc), type, success)
    /\ hist' = Invoked([hist EXCEPT
                   !.retired = IF success /\ IsExpectingMessage(dc, type)
                               THEN @ \cup {dc.expectedMessagesByType[type].timeoutCallback}
                               ELSE @,
                   !.call = [type |-> type, success |-> success,
                             matched |-> IF IsExpectingMessage(dc, type)
                                         THEN dc.expectedMessagesByType[type].timeoutCallback
                                         ELSE 0]], dc')
    /\ last' = NoEntry
    /\ act' = "confirm"
    /\ UNCHANGED << sendingTag, wire, clock, started, faults, lost,
                 keyPair, genesisConfig, networkConfig >>

\* A timer that has run out fires: _onTimeout, bound to its expectation.
Expire(t) ==
    /\ t \in TimersDue(dc, clock)
    /\ dc' = OnTimeout(Begin(dc), t.exp)
    /\ hist' = Invoked([hist EXCEPT
                   !.aborted = IF dc.buffer # NullBuffer THEN dc.receivingTag ELSE @,
                   !.call = NoCall], dc')
    /\ last' = NoEntry
    /\ act' = "timeout"
    /\ UNCHANGED << sendingTag, wire, clock, started, faults, lost,
                 keyPair, genesisConfig, networkConfig >>

\* Time passes once every timer that has run out has fired.
Elapse == TimersDue(dc, clock) = {} /\ Tick

\* close() is called on the channel.
CloseCalled ==
    /\ \E sync \in BOOLEAN : dc' = Close(Begin(dc), sync)
    /\ last' = NoEntry
    /\ act' = "close"
    /\ UNCHANGED << sendingTag, wire, clock, started, faults, lost, hist,
                 keyPair, genesisConfig, networkConfig >>

\* The transport of an open channel reports that it has closed: _onClose.
ConnectionLost ==
    /\ dc.readyState = OPEN
    /\ dc' = OnClose([Begin(dc) EXCEPT !.readyState = CLOSED])
    /\ last' = NoEntry
    /\ act' = "closed"
    /\ UNCHANGED << sendingTag, wire, clock, started, faults, lost, hist,
                 keyPair, genesisConfig, networkConfig >>

\* The transport of a closed channel reports once more that it has closed.
ClosedAgain ==
    /\ dc.readyState = CLOSED
    /\ dc' = OnClose(Begin(dc))
    /\ last' = NoEntry
    /\ act' = "closed"
    /\ UNCHANGED << sendingTag, wire, clock, started, faults, lost, hist,
                 keyPair, genesisConfig, networkConfig >>

ArmAny == \E types \in PeerTypeLists, pair \in TimeoutPairs : Arm(types, pair[1], pair[2])

ConfirmAny == \E type \in Types, success \in BOOLEAN : Confirm(type, success)

ExpireAny == \E t \in dc.timers : Expire(t)

ReceiveAny == \E chunk \in TimedChunks : Inject(chunk)

\* expectMessage with the default timeouts.
ArmDefault == \E types \in PeerTypeLists : Arm(types, MESSAGE_TIMEOUT, CHUNK_TIMEOUT)

NextTimed == ArmDefault \/ ExpireAny \/ Elapse \/ ReceiveAny \/ TransportClosed

\* Expectations armed and timing out while chunks arrive, under the right tag
\* and under a wrong one.
SpecTimed == Init /\ [][NextTimed]_vars

\* The chunks of the first message of a channel arrive, in any order.
ReceiveFirst ==
    \E i \in 1..Len(SendChunked(TimedMessage, 0)) :
        Inject(SendChunked(TimedMessage, 0)[i])

NextExpect == ArmDefault \/ ConfirmAny \/ ExpireAny \/ Elapse \/ ReceiveFirst

\* Expectations armed, confirmed either way and timing out while the chunks
\* of a message arrive.
SpecExpect == Init /\ [][NextExpect]_vars

\* expectMessage with no type, one type, or two types in either order.
ArmAnyTypes ==
    \E types \in TypeLists \ {<< TYPE_REJECT >>} :
        Arm(types, MESSAGE_TIMEOUT, CHUNK_TIMEOUT)

\* confirmExpectedMessage with any type, null included.
ConfirmAnyType ==
    \E type \in Types \cup {NullType}, success \in BOOLEAN : Confirm(type, success)

NextConfirm == ArmAnyTypes \/ ConfirmAnyType \/ ExpireAny \/ Elapse

\* Expectations with overlapping type lists armed, confirmed with and without
\* a match, and timing out.
SpecConfirm == Init /\ [][NextConfirm]_vars

\* expectMessage for blocks alone.
ArmBlock == Arm(<< TYPE_BLOCK >>, MESSAGE_TIMEOUT, CHUNK_TIMEOUT)

NextUnmatched == ArmBlock \/ ConfirmAnyType \/ ExpireAny \/ Elapse \/ ReceiveFirst

\* Confirmations of types that are expected and of types that are not, while
\* the chunks of a message arrive.
SpecUnmatched == Init /\ [][NextUnmatched]_vars

NextQuiet == ArmAny \/ ExpireAny \/ Elapse

\* Expectations armed on a channel that nothing else happens to.
SpecQuiet == Init /\ [][NextQuiet]_vars

\* The expectations of this specification are armed before _onClose runs.
ArmBeforeClosed == dc.readyState # CLOSED /\ ArmBlock

NextClosing ==
    \/ ArmBeforeClosed \/ ExpireAny \/ Elapse \/ ReceiveAny
    \/ CloseCalled \/ TransportClosed \/ ConnectionLost \/ ClosedAgain

\* A channel that is closed, by either side, once or more often, while
\* expectations are pending and chunks arrive.
SpecClosing == Init /\ [][NextClosing]_vars

\* An expectation of a REJECT alone.
ArmReject == Arm(<< TYPE_REJECT >>, MESSAGE_TIMEOUT, CHUNK_TIMEOUT)

NextIsolation == ArmReject \/ ExpireAny \/ Elapse \/ ReceiveFirst

\* A REJECT is expected while the chunks of a block arrive.
SpecIsolation == Init /\ [][NextIsolation]_vars

\* The chunks of the first message of a channel arrive, in any order, and
\* chunks that are its tag byte alone.
ReceiveSlowly ==
    \E chunk \in { SendChunked(TimedMessage, 0)[i] :
                      i \in 1..Len(SendChunked(TimedMessage, 0)) } \cup { << 0 >> } :
        Inject(chunk)

NextProgress == ArmBlock \/ ExpireAny \/ Elapse \/ ReceiveSlowly

\* A block is expected; its chunks arrive, and chunks without payload.
SpecProgress == Init /\ [][NextProgress]_vars

NextClosed ==
    ArmBlock \/ ConfirmAnyType \/ ExpireAny \/ Elapse \/ ReceiveFirst \/ ConnectionLost

\* A channel whose transport closes, and the calls and chunks that reach it
\* before and afterwards.
SpecClosed == Init /\ [][NextClosed]_vars

(***************************************************************************)
(* A KeyPair that is generated, locked, unlocked and relocked.             *)
(***************************************************************************)
PrivateKeys == 1..MaxPrivateKey

LockKeys == 1..MaxLockKey

Salts == 0..MaxSalt

\* const pair = KeyPair.generate()
GenerateKeyPair(privateKey) ==
    /\ keyPair.op = ""
    /\ keyPair' = KeyPairGenerate(privateKey)
    /\ act' = "keypair"
    /\ UNCHANGED << channel, genesisConfig, networkConfig >>

\* await pair.lock(key)
LockKeyPair(key, salt) ==
    /\ keyPair.op # ""
    /\ keyPair' = Lock(keyPair, key, salt)
    /\ act' = "keypair"
    /\ UNCHANGED << channel, genesisConfig, networkConfig >>

\* await pair.unlock(key)
UnlockKeyPair(key) ==
    /\ keyPair.op # ""
    /\ keyPair' = Unlock(keyPair, key)
    /\ act' = "keypair"
    /\ UNCHANGED << channel, genesisConfig, networkConfig >>

\* pair.relock()
RelockKeyPair ==
    /\ keyPair.op # ""
    /\ keyPair' = Relock(keyPair)
    /\ act' = "keypair"
    /\ UNCHANGED << channel, genesisConfig, networkConfig >>

GenerateAny == \E privateKey \in PrivateKeys : GenerateKeyPair(privateKey)

LockAny == \E key \in LockKeys, salt \in Salts : LockKeyPair(key, salt)

UnlockAny == \E key \in LockKeys : UnlockKeyPair(key)

NextKeyPair == GenerateAny \/ LockAny \/ UnlockAny \/ RelockKeyPair

\* One KeyPair, and any sequence of calls of lock, unlock and relock on it.
SpecKeyPair == Init /\ [][NextKeyPair]_vars

(***************************************************************************)
(* GenesisConfig and the calls of init, main and dev.                      *)
(***************************************************************************)
GenesisFiles == { "GenesisConfig.js", "GenesisConfigOffline.js" }

\* The config objects init is called with, complete ones and ones with
\* fields missing.
Configs ==
    { Config(id, name, block, peers) :
        id \in 0..MaxNetworkId, name \in {"", "main", "dev"},
        block \in {0, 1}, peers \in {Null, 0} }

\* The class definition of one of the two files is evaluated.
LoadGenesisConfig(file) ==
    /\ genesisConfig.file = ""
    /\ genesisConfig' = [NoGenesisConfig EXCEPT !.file = file, !.op = "load"]
    /\ act' = "genesis"
    /\ UNCHANGED << channel, keyPair, networkConfig >>

\* The call op, which hands config to init.
CallGenesisInit(op, config) ==
    /\ genesisConfig.file # ""
    /\ genesisConfig' = GenesisInit(genesisConfig, op, config)
    /\ act' = "genesis"
    /\ UNCHANGED << channel, keyPair, networkConfig >>

LoadAny == \E file \in GenesisFiles : LoadGenesisConfig(file)

\* GenesisConfig.init(config)
InitAny == \E config \in Configs : CallGenesisInit("init", config)

\* GenesisConfig.main()
Main == CallGenesisInit("main", CONFIGS(genesisConfig.file).main)

\* GenesisConfig.dev()
Dev == CallGenesisInit("dev", CONFIGS(genesisConfig.file).dev)

NextGenesis == LoadAny \/ InitAny \/ Main \/ Dev

\* Any sequence of calls of init, main and dev.
SpecGenesis == Init /\ [][NextGenesis]_vars

(***************************************************************************)
(* One NetworkConfig whose init calls run concurrently.                    *)
(***************************************************************************)
\* networkConfig.initPersistent() is called.
StartPersistent ==
    /\ Len(networkConfig.calls) < MaxInits
    /\ networkConfig' = InitPersistent(networkConfig)
    /\ act' = "network"
    /\ UNCHANGED << channel, keyPair, genesisConfig >>

\* networkConfig.initVolatile() is called.
StartVolatile ==
    /\ Len(networkConfig.calls) < MaxInits
    /\ networkConfig' = InitVolatile(networkConfig)
    /\ act' = "network"
    /\ UNCHANGED << channel, keyPair, genesisConfig >>

\* The promise call i awaits is settled and the call runs to its next await.
ResumeInit(i) ==
    /\ networkConfig.calls[i].pc # "done"
    /\ networkConfig' = NetworkInitResume(networkConfig, i)
    /\ act' = "network"
    /\ UNCHANGED << channel, keyPair, genesisConfig >>

ResumeAny == \E i \in 1..Len(networkConfig.calls) : ResumeInit(i)

NextNetwork == StartPersistent \/ StartVolatile \/ ResumeAny

\* Calls of initPersistent and initVolatile, interleaved at their awaits.
SpecNetwork == Init /\ [][NextNetwork]_vars

(***************************************************************************)
(* Properties.                                                             *)
(***************************************************************************)
\* The events of one name the last step fired.
EventsNamed(name) == SelectSeq(dc.events, LAMBDA e : e.name = name)

\* The last step handed a chunk to _onMessage, or a frame to the PeerChannel.
Delivered == act \in {"chunk", "frame"}

\* C1: chunk framing round trip.  The chunks of the first message a sender
\* sends, delivered in order to a fresh open channel, raise no 'error'; the
\* last of them raises exactly one 'message' event, carrying the bytes that
\* were sent, and the chunks before it raise none.
ChunkFramingRoundTrip ==
    (Delivered /\ last.first) =>
        /\ EventsNamed("error") = << >>
        /\ last.final =>
              /\ Len(EventsNamed("message")) = 1
              /\ EventsNamed("message")[1].data = last.of
        /\ ~last.final => EventsNamed("message") = << >>

\* A first message of the largest size, in several chunks, has been delivered.
RoundTripWitness ==
    /\ Delivered /\ last.first /\ last.final
    /\ Len(last.of) = MESSAGE_SIZE_MAX
    /\ Len(EventsNamed("message")) = 1

\* C2: in-order delivery.  With every chunk delivered in emission order, the
\* receiver stays open and fires one 'message' event per message sent, when
\* that message's last chunk arrives and with that message's bytes (hence in
\* send order), and the reassembly buffer is null right after the event.
InOrderDelivery ==
    Delivered =>
        /\ dc.readyState = OPEN
        /\ EventsNamed("error") = << >>
        /\ last.final =>
              /\ dc.events = << Event("message", last.of, "") >>
              /\ dc.buffer = NullBuffer
        /\ ~last.final =>
              /\ EventsNamed("message") = << >>
              /\ dc.buffer # NullBuffer

\* The message sent after the one tagged UINT8_MAX - 1 has been delivered: the
\* tag has wrapped to 0.
InOrderWitness ==
    /\ Delivered /\ last.final /\ ~last.first
    /\ last.bytes[1] = 0
    /\ dc.events = << Event("message", last.of, "") >>

\* What PeerChannel._onMessage makes of the frame it was handed last.
CannotPeek == PeekTypeThrows(last.bytes)
PeekedType == PeekType(last.bytes)
ParseFailed == ParseThrows(last.bytes)

\* A REJECT message was handed to send() in the last step.
RejectSent == \E i \in 1..Len(dc.sent) : PeekType(dc.sent[i]) = TYPE_REJECT

ClosedForParseFailure ==
    /\ dc.readyState \in {CLOSING, CLOSED}
    /\ dc.closeType = FAILED_TO_PARSE_MESSAGE_TYPE

\* C3 as claimed: a frame whose type cannot be peeked, or whose peeked type is
\* unknown or REJECT and which fails to parse, closes the channel with
\* FAILED_TO_PARSE_MESSAGE_TYPE and is not answered with a REJECT; no REJECT
\* frame is ever answered with a REJECT.
RejectLoopImmunityClaimed ==
    Delivered =>
        /\ ( \/ CannotPeek
             \/ ParseFailed /\ PeekedType \notin Types
             \/ ParseFailed /\ PeekedType = TYPE_REJECT )
              => ClosedForParseFailure /\ ~RejectSent
        /\ (~CannotPeek /\ PeekedType = TYPE_REJECT) => ~RejectSent

\* C3, amended: a frame whose type cannot be peeked, or whose peeked type is
\* REJECT and which fails to parse, closes the channel with
\* FAILED_TO_PARSE_MESSAGE_TYPE and is not answered with a REJECT; a frame
\* whose type can be peeked and is unknown is answered with a REJECT and
\* leaves the channel open; no REJECT frame is ever answered with a REJECT.
RejectLoopImmunity ==
    Delivered =>
        /\ (CannotPeek \/ (ParseFailed /\ PeekedType = TYPE_REJECT))
              => ClosedForParseFailure /\ ~RejectSent
        /\ (~CannotPeek /\ PeekedType \notin Types)
              => dc.readyState = OPEN /\ RejectSent
        /\ (~CannotPeek /\ PeekedType = TYPE_REJECT) => ~RejectSent

\* A REJECT frame with a bad checksum has closed the channel.
RejectLoopWitness ==
    /\ Delivered /\ ~CannotPeek /\ PeekedType = TYPE_REJECT /\ ParseFailed
    /\ ClosedForParseFailure /\ dc.sent = << >>

(***************************************************************************)
(* Steps of _onMessage: act' = "chunk" says the step handed last'.bytes to *)
(* _onMessage; unprimed dc is the channel before the call, dc' after it.   *)
(***************************************************************************)
ChunkStep == act' = "chunk"
Tag == last'.bytes[1]
PayloadLength == Len(last'.bytes) - 1
ChunkPayload == SubSeq(last'.bytes, 2, Len(last'.bytes))

\* A non-empty chunk of legal size reaches an open channel.
LegalChunkStep ==
    /\ ChunkStep
    /\ dc.readyState = OPEN
    /\ Len(last'.bytes) > 0
    /\ Len(last'.bytes) <= CHUNK_SIZE_MAX

\* The chunk of this step is the first of a message: no buffer, the next tag,
\* a header that can be peeked.
FirstChunkStep ==
    /\ LegalChunkStep
    /\ dc.buffer = NullBuffer
    /\ IsNextTag(dc.receivingTag, Tag)
    /\ ~PeekLengthThrows(ChunkPayload)

\* The events of the last step: an 'error' with this reason first, then at
\* most the 'close' of a transport that closes at once.
ErrorThenClose(reason) ==
    /\ dc.readyState \in {CLOSING, CLOSED}
    /\ \/ dc.events = << Event("error", << >>, reason) >>
       \/ dc.events = << Event("error", << >>, reason), Event("close", << >>, "") >>

ContinuationTagMismatch ==
    [][ (LegalChunkStep /\ dc.buffer # NullBuffer /\ Tag # dc.receivingTag)
          => /\ ErrorThenClose("wrong message tag")'
             /\ dc'.buffer = dc.buffer
             /\ dc'.receivingTag = dc.receivingTag ]_vars

\* A chunk carrying the next tag arrived in the middle of a message.
ContinuationTagMismatchWitness ==
    /\ act = "chunk" /\ dc.buffer # NullBuffer
    /\ dc.buffer.writePos > 0
    /\ Len(last.bytes) = CHUNK_SIZE_MAX
    /\ IsNextTag(dc.receivingTag, last.bytes[1])
    /\ ErrorThenClose("wrong message tag")

\* The tag byte of a chunk in transit.
TagOf(entry) == entry.bytes[1]

\* C11 as claimed: of two chunks emitted one after the other, the second
\* carries the tag of the first if both belong to one message, and that tag
\* plus one, modulo UINT8_MAX, if it starts another message; the messages sent
\* are of any length, 0 included.
TagMonotonicityClaimed ==
    \A i \in 1..(Len(wire) - 1) :
        IF wire[i + 1].head
        THEN TagOf(wire[i + 1]) = (TagOf(wire[i]) + 1) % UINT8_MAX
        ELSE TagOf(wire[i + 1]) = TagOf(wire[i])

\* The tag the tag t is followed by, as the claim has it: 0 at the start and
\* after the last tag, UINT8_MAX - 1.
TagAfter(t) == IF t = -1 \/ t = UINT8_MAX - 1 THEN 0 ELSE t + 1

\* The chunks this step's send call emits, in the transport after the step.
Emitted == SubSeq(wire', Len(wire) + 1, Len(wire'))

\* The chunk of this step starts a message on the receiver.
StartsMessage ==
    /\ ChunkStep
    /\ dc.buffer = NullBuffer
    /\ dc'.buffer # NullBuffer \/ EventsNamed("message")' # << >>

\* C12: tag range and wrap.  The sending tag is 0 before the first send and
\* always within 0..UINT8_MAX - 1; a send call emits its chunks under the
\* sending tag and leaves the following tag, which is 0 after UINT8_MAX - 1.
\* A receiver lets a chunk start a message only under the tag following the
\* last one it received: 0 when fresh, and 0 again, never UINT8_MAX, after
\* UINT8_MAX - 1; and under that tag a well-formed first chunk does start one.
TagRangeAndWrap ==
    /\ [](sendingTag \in 0..(UINT8_MAX - 1) /\ (~started => sendingTag = 0))
    /\ [][ act' = "send" =>
              /\ sendingTag' = TagAfter(sendingTag)
              /\ \A i \in 1..Len(Emitted) : TagOf(Emitted[i]) = sendingTag ]_vars
    /\ [][ StartsMessage =>
              /\ Tag = TagAfter(dc.receivingTag)
              /\ Tag # UINT8_MAX
              /\ dc'.receivingTag = Tag ]_vars
    /\ [][ (FirstChunkStep /\ ~ExcessiveSize(PeekLength(ChunkPayload)))
              => (StartsMessage /\ Tag = TagAfter(dc.receivingTag)) ]_vars

\* The receiver has taken tag 0 for the first chunk of a message that is not
\* the sender's first: both tags have wrapped.
TagRangeAndWrapWitness ==
    /\ act = "chunk" /\ last.head /\ ~last.first
    /\ TagOf(last) = 0 /\ sendingTag = 1
    /\ dc.receivingTag = 0
    /\ dc.buffer # NullBuffer /\ dc.buffer.writePos = CHUNK_SIZE_MAX - 1

\* This step ran a handler of the receiving channel.
HandlerStep == dc' # dc

\* C13: idempotent close.  However often and by whichever way the channel is
\* closed (close(), _error, the transport, a repeated close notification),
\* 'close' is observed in one step only, once and as the last event of that
\* step, which is the step that takes the listeners off; no event at all is
\* observed after it; and a channel whose _onClose has run has fired it.
IdempotentClose ==
    /\ [][ (HandlerStep /\ ~dc.listeners)
              => (~dc'.listeners /\ dc'.events = << >>) ]_vars
    /\ [][ (HandlerStep /\ EventsNamed("close")' # << >>)
              => /\ dc.listeners /\ ~dc'.listeners
                 /\ Len(EventsNamed("close")') = 1
                 /\ dc'.events[Len(dc'.events)].name = "close" ]_vars
    /\ [](dc.readyState = CLOSED => ~dc.listeners)

\* A closed channel has been notified once more that it is closed, and
\* nothing was observed.
IdempotentCloseWitness ==
    /\ act = "closed" /\ dc.readyState = CLOSED
    /\ ~dc.listeners /\ dc.events = << >>

\* _onClose runs in this step.
OnCloseStep ==
    /\ HandlerStep
    /\ dc'.readyState = CLOSED
    /\ dc.readyState # CLOSED \/ act' = "closed"

\* C14: close cancels timers.  The step in which _onClose runs leaves no
\* timer pending, and no timer is pending on a closed channel; so once the
\* channel is closed no callback of the expectations armed before is invoked.
\* A chunk delivered to a channel that is not open any more leaves buffer,
\* receivingTag and lastChunkReceivedAt as they are.
CloseCancelsTimers ==
    /\ [][ OnCloseStep => dc'.timers = {} ]_vars
    /\ [](dc.readyState = CLOSED => dc.timers = {})
    /\ [][ (HandlerStep /\ dc.readyState = CLOSED)
              => (dc'.callbacks = << >> /\ hist'.invoked = hist.invoked) ]_vars
    /\ [][ (ChunkStep /\ dc.readyState # OPEN)
              => /\ dc'.buffer = dc.buffer
                 /\ dc'.receivingTag = dc.receivingTag
                 /\ dc'.lastChunkReceivedAt = dc.lastChunkReceivedAt ]_vars

\* A chunk has reached a closed channel that holds half a message, at a time
\* when the chunk timer of an expectation would long have run out; its
\* callback has not been invoked.
CloseCancelsTimersWitness ==
    /\ act = "chunk" /\ dc.readyState = CLOSED
    /\ Len(last.bytes) > 0
    /\ dc.buffer # NullBuffer
    /\ dc.lastChunkReceivedAt < clock
    /\ \E k \in 1..Len(hist.armed) :
          /\ hist.armed[k].at + hist.armed[k].chunkTimeout < clock
          /\ hist.invoked[k] = 0

\* C15: silent drop.  A chunk that reaches a channel that is not open, and an
\* empty chunk, changes nothing: no event is fired, the ready state, buffer,
\* msgType, receivingTag, lastChunkReceivedAt, the expectation map and the
\* timers are what they were.
SilentDrop ==
    [][ (ChunkStep /\ (dc.readyState # OPEN \/ Len(last'.bytes) = 0))
          => /\ dc'.events = << >>
             /\ dc'.readyState = dc.readyState
             /\ dc'.buffer = dc.buffer
             /\ dc'.msgType = dc.msgType
             /\ dc'.receivingTag = dc.receivingTag
             /\ dc'.lastChunkReceivedAt = dc.lastChunkReceivedAt
             /\ dc'.expectedMessagesByType = dc.expectedMessagesByType
             /\ dc'.timers = dc.timers
             /\ dc' = Begin(dc) ]_vars

\* An empty chunk has reached an open channel that holds half a message and
\* has timers pending.
SilentDropWitness ==
    /\ act = "chunk" /\ last.bytes = << >>
    /\ dc.readyState = OPEN
    /\ dc.buffer # NullBuffer
    /\ dc.timers # {}
    /\ dc.expectedMessagesByType # EmptyMap
    /\ dc.events = << >>

\* The timers pending for the expectation of this id.
TimersOf(d, id) == { t \in d.timers : t.key[2] = id }

\* C16: timer expiry retires the expectation.  When a timer of an expectation
\* fires, chunk timer or msg timer, the callback of that expectation is
\* invoked (and no other), none of its timers stays pending and none of its
\* types stays registered.  Whatever the sequence of expectMessage,
\* confirmExpectedMessage, chunks and expiries, the callback of one
\* expectation is invoked at most once.
ExpiryRetires ==
    /\ [][ act' = "timeout" =>
              \E t \in TimersDue(dc, clock) :
                 /\ dc'.callbacks = << t.exp.timeoutCallback >>
                 /\ TimersOf(dc', t.exp.id) = {}
                 /\ \A i \in 1..Len(t.exp.types) :
                       ~IsExpectingMessage(dc', t.exp.types[i]) ]_vars
    /\ [](\A k \in 1..Len(hist.invoked) : hist.invoked[k] <= 1)

\* The timer of the second of two expectations fires after the callback of
\* the first has been invoked: each callback has run exactly once.
ExpiryRetiresWitness ==
    /\ act = "timeout"
    /\ Len(dc.callbacks) = 1
    /\ Len(hist.invoked) = 2
    /\ hist.invoked[1] = 1 /\ hist.invoked[2] = 1

\* The last call of expectMessage, and how often its callback was invoked.
LastArmed == hist.armed[Len(hist.armed)]
LastInvoked == hist.invoked[Len(hist.invoked)]

\* The message timeout of the last call of expectMessage has elapsed, and the
\* timers that have run out have fired.
LastArmedElapsed ==
    /\ hist.armed # << >>
    /\ clock >= LastArmed.at + LastArmed.msgTimeout
    /\ TimersDue(dc, clock) = {}

\* C17: expectation timeout without traffic.  On a channel to which nothing
\* happens but calls of expectMessage and the expiry of timers, once the
\* message timeout of the last call has elapsed its callback has been invoked
\* exactly once, none of its types is expected any more and the channel is
\* still open, with its listeners; an expiry fires no event.
TimeoutWithoutTraffic ==
    /\ [](LastArmedElapsed =>
             /\ LastInvoked = 1
             /\ \A i \in 1..Len(LastArmed.types) :
                   ~IsExpectingMessage(dc, LastArmed.types[i])
             /\ dc.readyState = OPEN /\ dc.listeners)
    /\ [][ act' = "timeout" => dc'.events = << >> ]_vars

\* The msg timer of the last expectation, shorter than its chunk timer, has
\* fired.
TimeoutWithoutTrafficWitness ==
    /\ LastArmedElapsed
    /\ act = "timeout"
    /\ LastArmed.msgTimeout < LastArmed.chunkTimeout
    /\ dc.callbacks = << Len(hist.armed) >>
    /\ LastInvoked = 1

\* The chunk of this step was appended to a message that is still incomplete.
IncompleteChunkStep ==
    /\ ChunkStep
    /\ dc'.buffer # NullBuffer
    /\ EventsNamed("chunk")' # << >>

\* The timers of one kind, "chunk" or "msg".
TimersOfKind(d, kind) == { t \in d.timers : t.key[1] = kind }

\* The call of expectMessage that made the expectation of a timer.
ArmedFor(t) == hist.armed[t.exp.timeoutCallback]

\* C18: only the chunk timer is extended.  A chunk appended to a message that
\* stays incomplete leaves every msg timer as it is; if an expectation is
\* registered under the type of that message, the chunk timer of that
\* expectation is set to run out chunkTimeout from now and no other timer
\* changes, otherwise no timer changes.  So a msg timer always runs out
\* msgTimeout after the call of expectMessage that set it, however many
\* chunks arrived, and is not pending beyond that time.
OnlyChunkTimerExtended ==
    /\ [][ IncompleteChunkStep =>
              /\ TimersOfKind(dc', "msg") = TimersOfKind(dc, "msg")
              /\ IF IsExpectingMessage(dc, dc'.msgType)
                 THEN LET expectedMsg == dc.expectedMessagesByType[dc'.msgType]
                          key == << "chunk", expectedMsg.id >>
                      IN  dc'.timers =
                             { t \in dc.timers : t.key # key }
                             \cup { [key |-> key, exp |-> expectedMsg,
                                     due |-> clock + expectedMsg.chunkTimeout] }
                 ELSE dc'.timers = dc.timers ]_vars
    /\ [](\A t \in TimersOfKind(dc, "msg") :
             /\ t.due = ArmedFor(t).at + ArmedFor(t).msgTimeout
             /\ clock <= t.due)

\* A chunk has moved the chunk timer of an expectation beyond the time it was
\* first set to, and the msg timer of that expectation is where it was.
OnlyChunkTimerExtendedWitness ==
    /\ act = "chunk" /\ dc.buffer # NullBuffer
    /\ EventsNamed("chunk") # << >>
    /\ \E t \in TimersOfKind(dc, "chunk"), m \in TimersOfKind(dc, "msg") :
          /\ t.key[2] = m.key[2]
          /\ t.due > ArmedFor(t).at + ArmedFor(t).chunkTimeout
          /\ m.due = ArmedFor(m).at + ArmedFor(m).msgTimeout

\* C19: timeout policy.  The expiry of a timer, chunk or msg, leaves no
\* reassembly buffer and invokes one callback; it fires no event, neither
\* 'error' nor 'close', and leaves ready state, listeners and receivingTag as
\* they are.
TimeoutPolicy ==
    [][ act' = "timeout" =>
          /\ dc'.buffer = NullBuffer
          /\ Len(dc'.callbacks) = 1
          /\ dc'.events = << >>
          /\ dc'.readyState = dc.readyState
          /\ dc'.listeners = dc.listeners
          /\ dc'.receivingTag = dc.receivingTag ]_vars

\* The one expiry so far has taken away the buffer of a half-received message
\* of an open channel.
TimeoutPolicyWitness ==
    /\ act = "timeout"
    /\ hist.invoked = << 1 >>
    /\ hist.aborted = 0
    /\ dc.buffer = NullBuffer
    /\ dc.readyState = OPEN

\* The last thing the receiver did with a message was to give it up, and this
\* step brings it a well-formed first chunk under the following tag.
FreshAfterAbortStep ==
    /\ LegalChunkStep
    /\ dc.buffer = NullBuffer
    /\ hist.aborted >= 0 /\ hist.aborted = dc.receivingTag
    /\ Tag = (hist.aborted + 1) % UINT8_MAX
    /\ ~PeekLengthThrows(ChunkPayload)
    /\ ~ExcessiveSize(PeekLength(ChunkPayload))

\* C20: recovery after a timeout.  A timer that runs out while a message is
\* half received invokes the callback, clears the buffer and leaves the
\* channel in its ready state, the tag of the message given up being kept.
\* The first chunk of a fresh message under the following tag is then taken,
\* without 'error'; and a message completed under that tag is fired as
\* 'message' with the bytes that were sent.
RecoveryAfterTimeout ==
    /\ [][ (act' = "timeout" /\ dc.buffer # NullBuffer) =>
              /\ dc'.buffer = NullBuffer
              /\ Len(dc'.callbacks) = 1
              /\ dc'.readyState = dc.readyState
              /\ dc'.receivingTag = dc.receivingTag ]_vars
    /\ [][ FreshAfterAbortStep =>
              /\ StartsMessage
              /\ dc'.receivingTag = Tag
              /\ dc'.readyState = OPEN
              /\ EventsNamed("error")' = << >> ]_vars
    /\ [][ (ChunkStep /\ hist.aborted >= 0
              /\ dc'.receivingTag = (hist.aborted + 1) % UINT8_MAX
              /\ EventsNamed("message")' # << >>)
              => dc'.events = << Event("message", ViewBytes(TimedMessage), "") >> ]_vars

\* After the message under tag 0 was given up on a timeout, the message
\* under tag 1 has been delivered whole.
RecoveryAfterTimeoutWitness ==
    /\ act = "chunk"
    /\ hist.aborted = 0
    /\ dc.receivingTag = 1
    /\ dc.readyState = OPEN
    /\ dc.events = << Event("message", ViewBytes(TimedMessage), "") >>

\* The last step was confirmExpectedMessage(type, success) and an expectation
\* was registered under type.
ConfirmMatched(success) ==
    act' = "confirm" /\ hist'.call.success = success /\ hist'.call.matched # 0

\* The expectation the confirmed type was registered to.
Matched == dc.expectedMessagesByType[hist'.call.type]

\* Neither a timer nor a type of the expectation is left.
Retired(d, expectedMsg) ==
    /\ TimersOf(d, expectedMsg.id) = {}
    /\ \A i \in 1..Len(expectedMsg.types) : ~IsExpectingMessage(d, expectedMsg.types[i])

\* C21: a successful confirm retires the whole expectation.  When
\* confirmExpectedMessage(t, true) is called and an expectation is registered
\* under t, both of its timers are cancelled, none of its types stays
\* registered, and its callback is invoked neither in that call nor ever
\* afterwards.
SuccessfulConfirmRetires ==
    /\ [][ ConfirmMatched(TRUE) => Retired(dc', Matched) /\ dc'.callbacks = << >> ]_vars
    /\ [][ \A i \in 1..Len(dc'.callbacks) : dc'.callbacks[i] \notin hist.retired ]_vars
    /\ [](\A k \in hist.retired : hist.invoked[k] = 0)

\* An expectation for two types has been retired by confirming one of them,
\* while its timers were pending.
SuccessfulConfirmWitness ==
    /\ act = "confirm"
    /\ hist.call.success
    /\ hist.call.matched # 0
    /\ Len(hist.armed[hist.call.matched].types) = 2
    /\ clock < hist.armed[hist.call.matched].at + CHUNK_TIMEOUT
    /\ dc.timers = {}
    /\ dc.expectedMessagesByType = EmptyMap

\* C22: a failed confirm.  When confirmExpectedMessage(t, false) is called
\* and an expectation is registered under t, both of its timers are
\* cancelled, none of its types stays registered, its callback is invoked
\* exactly once in that call and finds the expectation removed already, and
\* the channel is not closed: no event is fired and the ready state stays.
FailedConfirm ==
    [][ ConfirmMatched(FALSE) =>
           /\ Retired(dc', Matched)
           /\ dc'.callbacks = << Matched.timeoutCallback >>
           /\ dc'.seen = << FALSE >>
           /\ dc'.events = << >>
           /\ dc'.readyState = dc.readyState ]_vars

\* One of two expectations has been retired by a failed confirm on an open
\* channel while the other stays pending.
FailedConfirmWitness ==
    /\ act = "confirm"
    /\ ~hist.call.success
    /\ hist.call.matched # 0
    /\ dc.callbacks = << hist.call.matched >>
    /\ hist.invoked[hist.call.matched] = 1
    /\ dc.readyState = OPEN
    /\ dc.timers # {}
    /\ dc.expectedMessagesByType # EmptyMap

\* C23: a confirm without a match is a no-op.  When confirmExpectedMessage(t,
\* success) is called for a type t, null included, that no expectation is
\* registered under, no callback is invoked, no timer is cancelled, and the
\* expectation map, the buffer and the ready state stay as they are, as does
\* every other field of the channel.
UnmatchedConfirmNoOp ==
    [][ (act' = "confirm" /\ hist'.call.matched = 0) =>
           /\ dc'.callbacks = << >>
           /\ dc'.timers = dc.timers
           /\ dc'.expectedMessagesByType = dc.expectedMessagesByType
           /\ dc'.buffer = dc.buffer
           /\ dc'.readyState = dc.readyState
           /\ dc' = Begin(dc) ]_vars

\* confirmExpectedMessage(null, false) has been called while a message was
\* being reassembled and an expectation was pending.
UnmatchedConfirmWitness ==
    /\ act = "confirm"
    /\ hist.call = [type |-> NullType, success |-> FALSE, matched |-> 0]
    /\ dc.buffer # NullBuffer
    /\ dc.timers # {}
    /\ IsExpectingMessage(dc, TYPE_BLOCK)

\* The timer of that kind is pending for the expectation of callback k, due
\* at that time.
TimerPending(d, kind, types, k, due) ==
    \E t \in d.timers :
        /\ t.key = << kind, types >>
        /\ t.exp.timeoutCallback = k
        /\ t.exp.types = types
        /\ t.due = due

\* C24: expectMessage registers and overwrites.  After expectMessage(types,
\* cb, msgTimeout, chunkTimeout) with a type list that is not empty, every
\* type of the list is registered to the expectation this call created,
\* whatever was registered under it before, a chunk timer and a msg timer are
\* pending for that expectation, and the other types are registered as
\* before.  With an empty type list the call changes nothing.
ExpectRegistersAndOverwrites ==
    [][ act' = "expect" =>
           LET k == Len(hist'.armed)
               call == hist'.armed[k]
               types == { call.types[i] : i \in 1..Len(call.types) }
           IN  IF call.types = << >> THEN dc' = Begin(dc)
               ELSE /\ \A t \in types :
                          /\ IsExpectingMessage(dc', t)
                          /\ dc'.expectedMessagesByType[t].timeoutCallback = k
                          /\ dc'.expectedMessagesByType[t].types = call.types
                    /\ TimerPending(dc', "chunk", call.types, k, clock + call.chunkTimeout)
                    /\ TimerPending(dc', "msg", call.types, k, clock + call.msgTimeout)
                    /\ DOMAIN dc'.expectedMessagesByType =
                          DOMAIN dc.expectedMessagesByType \cup types
                    /\ \A t \in DOMAIN dc.expectedMessagesByType \ types :
                          dc'.expectedMessagesByType[t] = dc.expectedMessagesByType[t] ]_vars

\* A second expectMessage has taken one of the two types of the first
\* expectation over and left the other one to it.
ExpectOverwritesWitness ==
    /\ act = "expect"
    /\ Len(hist.armed) = 2
    /\ Len(hist.armed[1].types) = 2
    /\ hist.armed[2].types = << TYPE_BLOCK >>
    /\ IsExpectingMessage(dc, TYPE_BLOCK)
    /\ dc.expectedMessagesByType[TYPE_BLOCK].timeoutCallback = 2
    /\ IsExpectingMessage(dc, TYPE_REJECT)
    /\ dc.expectedMessagesByType[TYPE_REJECT].timeoutCallback = 1

\* The frame handed to PeerChannel._onMessage in this step: its type can be
\* peeked and is a known one other than REJECT, and it does not parse.
MalformedFrameStep ==
    /\ act' = "frame"
    /\ ~PeekTypeThrows(last'.bytes)
    /\ PeekType(last'.bytes) \in Types \ {TYPE_REJECT}
    /\ ParseThrows(last'.bytes)

\* C25: a malformed frame of a known type other than REJECT.  The
\* PeerChannel confirms the type as failed, so an expectation registered
\* under it is retired and its callback invoked once; it sends exactly one
\* message, REJECT(type, REJECT_MALFORMED); it fires no typed event and no
\* 'message-log'; and it does not close the channel.
MalformedRejected ==
    [][ MalformedFrameStep =>
           LET type == PeekType(last'.bytes)
           IN  /\ IF IsExpectingMessage(dc, type)
                  THEN /\ Retired(dc', dc.expectedMessagesByType[type])
                       /\ dc'.callbacks =
                             << dc.expectedMessagesByType[type].timeoutCallback >>
                  ELSE /\ dc'.callbacks = << >>
                       /\ dc'.timers = dc.timers
                       /\ dc'.expectedMessagesByType = dc.expectedMessagesByType
               /\ dc'.sent = << Serialize(TYPE_REJECT, << type, REJECT_MALFORMED >>) >>
               /\ dc'.peerEvents = << >>
               /\ dc'.events = << >>
               /\ dc'.readyState = dc.readyState
               /\ dc'.closeType = dc.closeType ]_vars

\* A block frame with a bad checksum has arrived while a block was expected:
\* the callback has run, a REJECT has gone out and the channel is open.
MalformedRejectedWitness ==
    /\ Delivered /\ ~CannotPeek /\ PeekedType = TYPE_BLOCK /\ ParseFailed
    /\ last.bytes = Corrupt(Serialize(TYPE_BLOCK, << 1 >>), "checksum")
    /\ Len(dc.callbacks) = 1
    /\ Len(dc.sent) = 1
    /\ dc.readyState = OPEN

\* The frame handed to PeerChannel._onMessage in this step parses.
ParsedFrameStep == act' = "frame" /\ ~ParseThrows(last'.bytes)

\* The typed events PeerChannel fired in the step that led to d.
TypedEvents(d) == SelectSeq(d.peerEvents, LAMBDA e : e.name # "message-log")

\* C26: a successful receive.  For every frame that parses, an expectation
\* registered under its type is retired without its callback being invoked,
\* and exactly one typed event is fired: the one PeerChannel.Event holds for
\* the type, carrying the message, to subscribers that find the type no
\* longer expected.  PeerChannel.Event gives different types different names.
SuccessfulReceive ==
    /\ [][ ParsedFrameStep =>
              LET type == PeekType(last'.bytes)
              IN  /\ IF IsExpectingMessage(dc, type)
                     THEN Retired(dc', dc.expectedMessagesByType[type])
                     ELSE /\ dc'.timers = dc.timers
                          /\ dc'.expectedMessagesByType = dc.expectedMessagesByType
                  /\ dc'.callbacks = << >>
                  /\ TypedEvents(dc') =
                        << Event(EventOfType(TypeName(type)), last'.bytes, "") >>
                  /\ dc'.seen = << FALSE >> ]_vars
    /\ [](\A i, j \in 1..Len(PeerChannelEvent) :
             i # j => /\ PeerChannelEvent[i][1] # PeerChannelEvent[j][1]
                      /\ PeerChannelEvent[i][2] # PeerChannelEvent[j][2])

\* A reject message has arrived on a channel where a reject or a block was
\* expected: 'reject' is fired, no callback has run, and no type is expected
\* any more although the timers of an earlier expectation for blocks alone,
\* which shared a type with the one retired, are still pending.
SuccessfulReceiveWitness ==
    /\ Delivered /\ ~ParseFailed /\ PeekedType = TYPE_REJECT
    /\ Len(dc.peerEvents) >= 1
    /\ dc.peerEvents[1].name = "reject"
    /\ dc.callbacks = << >>
    /\ dc.seen = << FALSE >>
    /\ dc.timers # {}
    /\ \A t \in dc.timers : t.exp.types = << TYPE_BLOCK >>
    /\ dc.expectedMessagesByType = EmptyMap

\* C27: handler errors are local.  Whether or not a subscriber of the typed
\* event throws or rejects, the step that handles a frame that parses leaves
\* the ready state and the listeners of the channel as they are, sends
\* nothing and fires neither 'close' nor 'error'; and after a subscriber has
\* thrown, every frame that parses is still dispatched as one typed event
\* carrying that frame, in the step in which it is received.
HandlerErrorsLocal ==
    /\ [][ ParsedFrameStep =>
              /\ dc'.readyState = dc.readyState
              /\ dc'.listeners = dc.listeners
              /\ dc'.closeType = dc.closeType
              /\ dc'.sent = << >>
              /\ dc'.out = << >>
              /\ dc'.events = << >> ]_vars
    /\ [][ (hist.threw /\ ParsedFrameStep) =>
              TypedEvents(dc') =
                 << Event(EventOfType(TypeName(PeekType(last'.bytes))), last'.bytes, "") >> ]_vars

\* After a subscriber has thrown, a block has been received and dispatched,
\* this time to subscribers that did not throw, on a channel still open.
HandlerErrorsLocalWitness ==
    /\ hist.threw
    /\ Delivered /\ ~ParseFailed /\ PeekedType = TYPE_BLOCK
    /\ Len(dc.peerEvents) = 2
    /\ dc.peerEvents[1].name = "block"
    /\ dc.peerEvents[2].name = "message-log"
    /\ dc.readyState = OPEN

\* The 'message-log' events PeerChannel fired in the last step.
MessageLogs == SelectSeq(dc.peerEvents, LAMBDA e : e.name = "message-log")

\* C28 as claimed: for every received frame that parses, exactly one
\* 'message-log' event is fired, carrying that message with its byte length;
\* for a frame that does not parse, none is fired.
MessageLogClaimed ==
    (act = "frame") =>
        IF ParseFailed THEN MessageLogs = << >>
        ELSE MessageLogs = << Event("message-log", last.bytes, "") >>

\* send(msg) was called in this step, with an array of n bytes.
SendCalled(n) == act' \in {"send", "assert"} /\ Len(last'.bytes) = n

\* C29: the precondition of send.  send(msg) with more than MESSAGE_SIZE_MAX
\* bytes fails in its assertion, hands no chunk to sendChunk and leaves
\* sendingTag as it is; with exactly MESSAGE_SIZE_MAX bytes it succeeds: the
\* chunks of the message are emitted and the tag is advanced.
SendPrecondition ==
    /\ [][ \A n \in (MESSAGE_SIZE_MAX + 1)..(MESSAGE_SIZE_MAX + 2) :
              SendCalled(n) =>
                 act' = "assert" /\ wire' = wire /\ sendingTag' = sendingTag ]_vars
    /\ [][ SendCalled(MESSAGE_SIZE_MAX) =>
              /\ act' = "send"
              /\ Len(wire') > Len(LastEmitted(wire))
              /\ \A i \in (Len(LastEmitted(wire)) + 1)..Len(wire') :
                    wire'[i].of = last'.bytes /\ TagOf(wire'[i]) = sendingTag
              /\ sendingTag' = NextSendingTag(sendingTag) ]_vars

\* An array one byte too long has been refused after a message was sent.
SendPreconditionWitness ==
    /\ act = "assert"
    /\ Len(last.bytes) = MESSAGE_SIZE_MAX + 1
    /\ sendingTag = 1
    /\ wire # << >>

\* The payloads of a sequence of chunks, tags stripped, one after the other.
RECURSIVE JoinPayloads(_)
JoinPayloads(chunks) ==
    IF chunks = << >> THEN << >>
    ELSE Tail(Head(chunks)) \o JoinPayloads(Tail(chunks))

\* The chunks handed to sendChunk in this step.
ChunksEmitted ==
    [i \in 1..(Len(wire') - Len(LastEmitted(wire))) |->
        wire'[Len(LastEmitted(wire)) + i].bytes]

\* C30 as claimed: for a message of n > 0 bytes send emits
\* ceil(n / (CHUNK_SIZE_MAX - 1)) chunks; every chunk starts with the tag of
\* the message and has at most CHUNK_SIZE_MAX bytes, every chunk but the last
\* exactly CHUNK_SIZE_MAX, the last exactly the remaining bytes and the tag;
\* and the payloads of the chunks, joined, are the bytes of the message.
ChunkShapeClaimed ==
    [][ (act' = "send" /\ Len(last'.bytes) > 0) =>
           LET n == Len(last'.bytes)
               chunks == ChunksEmitted
               count == Len(chunks)
           IN  /\ count = (n + CHUNK_SIZE_MAX - 2) \div (CHUNK_SIZE_MAX - 1)
               /\ \A i \in 1..count :
                     /\ chunks[i][1] = sendingTag
                     /\ Len(chunks[i]) <= CHUNK_SIZE_MAX
                     /\ i < count => Len(chunks[i]) = CHUNK_SIZE_MAX
               /\ Len(chunks[count]) = n - (count - 1) * (CHUNK_SIZE_MAX - 1) + 1
               /\ JoinPayloads(chunks) = last'.bytes ]_vars

\* The byte strings a sender can hand to send().
SendableBytes == { ViewBytes(m) : m \in ValidMessages }

\* The chunk just delivered is the first chunk of a message and comes after
\* the place where the transport lost or reordered chunks.
HeadAfterFault == act = "chunk" /\ last.after /\ last.head

\* The chunk just delivered belongs to the message the lost chunk was cut from.
OfDamagedMessage ==
    /\ act = "chunk" /\ lost # NoEntry
    /\ last.of = lost.of /\ last.bytes[1] = lost.bytes[1]

\* C6 as claimed: whichever chunk the transport drops, whichever two chunks it
\* exchanges, no 'message' event carries bytes that were never sent, and no
\* chunk behind the fault completes a message, the channel having closed
\* before.
LossDetectionClaimed ==
    /\ \A i \in 1..Len(dc.events) :
          dc.events[i].name = "message" => dc.events[i].data \in SendableBytes
    /\ (act = "chunk" /\ last.after) => EventsNamed("message") = << >>

\* C6: loss of a continuation chunk.  When the transport has dropped one chunk
\* that is not the first chunk of its message (and nothing else went wrong),
\* the remaining chunks of that message raise no 'message' event, and the
\* delivery of the first chunk of a later message leaves the channel closing
\* or closed: it raises 'error' ("wrong message tag") unless the channel was
\* closed before.
LossOfContinuationDetected ==
    (faults = 1 /\ act = "chunk" /\ lost # NoEntry /\ ~lost.head) =>
        /\ OfDamagedMessage => EventsNamed("message") = << >>
        /\ HeadAfterFault =>
              /\ dc.readyState \in {CLOSING, CLOSED}
              /\ dc.events = << >> \/ ErrorThenClose("wrong message tag")

\* The first chunk of the message following the damaged one has raised the
\* error.
LossOfContinuationWitness ==
    /\ faults = 1 /\ lost # NoEntry /\ ~lost.head
    /\ HeadAfterFault
    /\ IsNextTag(lost.bytes[1], last.bytes[1])
    /\ ErrorThenClose("wrong message tag")

\* C7: declared-size bound.  A first chunk declaring exactly MESSAGE_SIZE_MAX
\* is accepted: no 'error', a buffer of that size holding the chunk's payload,
\* the chunk's tag taken.  A first chunk declaring more raises exactly one
\* 'error' ("excessive message size") and the channel closes, with the buffer
\* still null and receivingTag unchanged.
DeclaredSizeBound ==
    [][ FirstChunkStep =>
          /\ PeekLength(ChunkPayload) = MESSAGE_SIZE_MAX =>
                /\ EventsNamed("error")' = << >>
                /\ dc'.readyState = OPEN
                /\ dc'.receivingTag = Tag
                /\ IF PayloadLength < MESSAGE_SIZE_MAX
                   THEN /\ dc'.buffer.byteLength = MESSAGE_SIZE_MAX
                        /\ dc'.buffer.writePos = PayloadLength
                   ELSE EventsNamed("message")' # << >>
          /\ PeekLength(ChunkPayload) > MESSAGE_SIZE_MAX =>
                /\ ErrorThenClose("excessive message size")'
                /\ dc'.buffer = NullBuffer
                /\ dc'.receivingTag = dc.receivingTag ]_vars

\* A first chunk declaring MESSAGE_SIZE_MAX + 1 bytes has closed the channel.
DeclaredSizeWitness ==
    /\ act = "chunk"
    /\ Len(last.bytes) > LENGTH_POS
    /\ PeekLength(SubSeq(last.bytes, 2, Len(last.bytes))) = MESSAGE_SIZE_MAX + 1
    /\ ErrorThenClose("excessive message size")
    /\ dc.buffer = NullBuffer

\* C8: chunk-size bound.  On an open channel a chunk of exactly CHUNK_SIZE_MAX
\* bytes does not fail the size check; a chunk of CHUNK_SIZE_MAX + 1 bytes
\* raises 'error' and closes the channel whatever its tag, and buffer,
\* receivingTag and msgType stay as they were.
ChunkSizeBound ==
    [][ (ChunkStep /\ dc.readyState = OPEN) =>
          /\ Len(last'.bytes) = CHUNK_SIZE_MAX =>
                \A i \in 1..Len(dc'.events) :
                    dc'.events[i].reason # "chunk larger than maximum chunk size"
          /\ Len(last'.bytes) = CHUNK_SIZE_MAX + 1 =>
                /\ ErrorThenClose("chunk larger than maximum chunk size")'
                /\ dc'.buffer = dc.buffer
                /\ dc'.receivingTag = dc.receivingTag
                /\ dc'.msgType = dc.msgType ]_vars

\* A chunk of CHUNK_SIZE_MAX + 1 bytes carrying the tag of the message in
\* reassembly has closed the channel.
ChunkSizeWitness ==
    /\ act = "chunk"
    /\ Len(last.bytes) = CHUNK_SIZE_MAX + 1
    /\ dc.buffer # NullBuffer
    /\ last.bytes[1] = dc.receivingTag
    /\ ErrorThenClose("chunk larger than maximum chunk size")

\* The bytes written to the reassembly buffer never exceed its size, and an
\* open channel holds no buffer that is full.
WrittenWithinDeclared ==
    dc.buffer # NullBuffer =>
        /\ dc.buffer.writePos <= dc.buffer.byteLength
        /\ dc.readyState = OPEN => dc.buffer.writePos < dc.buffer.byteLength

\* The declared length of the message the chunk of this step belongs to, and
\* the bytes of it written before this step.
DeclaredLength ==
    IF dc.buffer = NullBuffer THEN PeekLength(ChunkPayload) ELSE dc.buffer.byteLength
WrittenBefore == IF dc.buffer = NullBuffer THEN 0 ELSE dc.buffer.writePos

\* The chunk of this step belongs to a message: it starts one within the size
\* bound, or carries the tag of the one in reassembly.
MessageChunkStep ==
    /\ LegalChunkStep
    /\ \/ FirstChunkStep /\ PeekLength(ChunkPayload) <= MESSAGE_SIZE_MAX
       \/ dc.buffer # NullBuffer /\ Tag = dc.receivingTag

\* C9: no overrun.  The bytes written never exceed the declared length; a
\* chunk whose payload is longer than the bytes remaining raises 'error', the
\* channel closes and nothing of it is written; 'message' fires exactly in
\* the step in which the written bytes reach the declared length.
NoOverrun ==
    /\ []WrittenWithinDeclared
    /\ [][ MessageChunkStep =>
             /\ PayloadLength > DeclaredLength - WrittenBefore =>
                   /\ ErrorThenClose("chunk larger than remaining bytes")'
                   /\ dc'.buffer.writePos = WrittenBefore
             /\ PayloadLength = DeclaredLength - WrittenBefore =>
                   /\ Len(EventsNamed("message")') = 1
                   /\ Len(EventsNamed("message")'[1].data) = DeclaredLength
             /\ PayloadLength < DeclaredLength - WrittenBefore =>
                   /\ EventsNamed("message")' = << >>
                   /\ dc'.buffer.writePos = WrittenBefore + PayloadLength ]_vars
    /\ [][ (ChunkStep /\ ~MessageChunkStep) => EventsNamed("message")' = << >> ]_vars

\* A continuation chunk longer than the bytes that remain has closed the
\* channel, the bytes written before it still in place.
NoOverrunWitness ==
    /\ act = "chunk"
    /\ ErrorThenClose("chunk larger than remaining bytes")
    /\ dc.buffer # NullBuffer
    /\ dc.buffer.writePos > 0
    /\ Len(last.bytes) - 1 > dc.buffer.byteLength - dc.buffer.writePos

\* C10: at most one inbound message in flight.  The buffer becomes or stays
\* non-null and changes only by a chunk that carries receivingTag; while a
\* buffer exists no other is allocated: its size and tag stay, the bytes
\* written stay, and the chunk's payload is appended to them.
OneInFlight ==
    [][ (dc'.buffer # NullBuffer /\ dc'.buffer # dc.buffer) =>
          /\ ChunkStep
          /\ Len(last'.bytes) > 0
          /\ Tag = dc'.receivingTag
          /\ dc.buffer # NullBuffer =>
                /\ dc'.receivingTag = dc.receivingTag
                /\ dc'.buffer.byteLength = dc.buffer.byteLength
                /\ dc'.buffer.writePos = dc.buffer.writePos + PayloadLength
                /\ SubSeq(dc'.buffer.bytes, 1, dc'.buffer.writePos)
                      = SubSeq(dc.buffer.bytes, 1, dc.buffer.writePos) \o ChunkPayload
          /\ dc.buffer = NullBuffer =>
                /\ IsNextTag(dc.receivingTag, Tag)
                /\ SubSeq(dc'.buffer.bytes, 1, dc'.buffer.writePos) \in {<< >>, ChunkPayload} ]_vars

\* A second chunk has been appended to the buffer of a message whose tag is
\* not the first.
OneInFlightWitness ==
    /\ act = "chunk"
    /\ dc.readyState = OPEN
    /\ dc.buffer # NullBuffer
    /\ dc.receivingTag > 0
    /\ dc.buffer.writePos > CHUNK_SIZE_MAX - 1
    /\ dc.events = << Event("chunk", dc.buffer.bytes, "") >>

\* The last step was the call op on the KeyPair.
KeyPairCalled(op) == act' = "keypair" /\ keyPair'.op = op

\* C31: the lock state machine of a KeyPair.  A generated pair is unlocked
\* and hands out its private key.  lock(key) on an unlocked pair makes
\* isLocked true and privateKey throw.  unlock(key) on a locked pair, with
\* the key of its last lock, makes isLocked false and privateKey the private
\* key the pair was generated with, also when that lock was a second one
\* under another key.  relock() on a pair that was unlocked makes isLocked
\* true and privateKey throw, without a key.
LockStateMachine ==
    [][ /\ KeyPairCalled("generate") =>
              /\ ~IsLocked(keyPair')
              /\ ~PrivateKeyThrows(keyPair')
              /\ PrivateKey(keyPair') = keyPair'.backup
        /\ (KeyPairCalled("lock") /\ ~IsLocked(keyPair)) =>
              /\ keyPair'.error = ""
              /\ IsLocked(keyPair')
              /\ PrivateKeyThrows(keyPair')
              /\ keyPair'._internalPrivateKey # keyPair.backup
        /\ (/\ KeyPairCalled("unlock")
            /\ IsLocked(keyPair)
            /\ keyPair'.key = keyPair.lockedWith) =>
              /\ keyPair'.error = ""
              /\ ~IsLocked(keyPair')
              /\ ~PrivateKeyThrows(keyPair')
              /\ PrivateKey(keyPair') = keyPair.backup
        /\ (KeyPairCalled("relock") /\ ~IsLocked(keyPair) /\ keyPair.lockedWith # Null) =>
              /\ keyPair'.error = ""
              /\ IsLocked(keyPair')
              /\ PrivateKeyThrows(keyPair')
              /\ Unlock(keyPair', keyPair.lockedWith).error = "" ]_vars

\* A pair that was locked under one key, unlocked, locked under another key
\* and unlocked with that one hands out the private key it was generated
\* with.
LockStateMachineWitness ==
    /\ act = "keypair"
    /\ keyPair.op = "unlock"
    /\ keyPair.error = ""
    /\ ~IsLocked(keyPair)
    /\ keyPair.lockedBefore \notin {Null, keyPair.lockedWith}
    /\ keyPair.key = keyPair.lockedWith
    /\ PrivateKey(keyPair) = keyPair.backup

\* What a KeyPair holds: everything but the record of its last call.
KeyPairState(pair) == [pair EXCEPT !.op = "", !.key = Null, !.error = ""]

\* The last step was unlock(key) on a locked pair, with another key than the
\* one it was locked with.
WrongKeyUnlock ==
    /\ KeyPairCalled("unlock")
    /\ IsLocked(keyPair)
    /\ keyPair'.key # keyPair.lockedWith

\* C32: unlock with the wrong key.  unlock(k2) on a pair locked with k1 # k2
\* throws and leaves the pair locked and as it was, and unlock(k1) on the
\* pair it leaves succeeds and unlocks it.
WrongKeyUnlockFails ==
    [][ WrongKeyUnlock =>
          /\ keyPair'.error # ""
          /\ IsLocked(keyPair')
          /\ PrivateKeyThrows(keyPair')
          /\ KeyPairState(keyPair') = KeyPairState(keyPair)
          /\ LET unlocked == Unlock(keyPair', keyPair.lockedWith)
             IN  /\ unlocked.error = ""
                 /\ ~IsLocked(unlocked)
                 /\ PrivateKey(unlocked) = keyPair.backup ]_vars

\* unlock has failed with 'Invalid key' on a locked pair.
WrongKeyUnlockWitness ==
    /\ act = "keypair"
    /\ keyPair.op = "unlock"
    /\ keyPair.error = "Invalid key"
    /\ keyPair.key # keyPair.lockedWith
    /\ IsLocked(keyPair)

\* A timer has fired whose expectation does not name the type of the message
\* under reassembly.
UnrelatedExpiry ==
    /\ act' = "timeout"
    /\ dc.buffer # NullBuffer
    /\ Len(dc'.callbacks) = 1
    /\ \A i \in 1..Len(hist.armed[dc'.callbacks[1]].types) :
          hist.armed[dc'.callbacks[1]].types[i] # dc.msgType

\* The last chunk of the message that was under reassembly when a timer
\* fired arrives.
FinalChunkAfterExpiry ==
    /\ ChunkStep
    /\ hist.aborted >= 0 /\ hist.aborted = dc.receivingTag
    /\ last'.bytes = SendChunked(TimedMessage, hist.aborted)[Len(SendChunked(TimedMessage, 0))]

\* C33 as claimed: the expiry of a timer of an expectation for other types
\* keeps the buffer of the message under reassembly, and the message is
\* delivered as a 'message' event once its last chunk arrives.
TimeoutIsolationClaimed ==
    [][ /\ UnrelatedExpiry => dc'.buffer = dc.buffer
        /\ FinalChunkAfterExpiry =>
              \E i \in 1..Len(dc'.events) : dc'.events[i].name = "message" ]_vars

\* C33, amended: the expiry of a timer of an expectation for other types
\* discards the message under reassembly as every expiry does: the buffer
\* becomes null and the receiving tag stays, so the chunks of that message
\* that arrive afterwards, which carry its tag, are dropped without any
\* event and without a new buffer.
TimeoutDiscardsInFlight ==
    [][ /\ UnrelatedExpiry =>
              /\ dc'.buffer = NullBuffer
              /\ dc'.receivingTag = dc.receivingTag
              /\ dc'.events = << >>
        /\ (/\ ChunkStep
            /\ dc.buffer = NullBuffer
            /\ hist.aborted >= 0 /\ hist.aborted = dc.receivingTag
            /\ Len(last'.bytes) > 0
            /\ Tag = hist.aborted) =>
              /\ dc'.events = << >>
              /\ dc'.buffer = NullBuffer
              /\ dc'.receivingTag = dc.receivingTag ]_vars

\* The last chunk of a block has been dropped: the block was under
\* reassembly when the timer of an expectation of a REJECT fired.
TimeoutDiscardsWitness ==
    /\ act = "chunk"
    /\ hist.aborted = dc.receivingTag
    /\ hist.armed # << >>
    /\ \A k \in 1..Len(hist.armed) : hist.armed[k].types = << TYPE_REJECT >>
    /\ last.bytes = SendChunked(TimedMessage, hist.aborted)[Len(SendChunked(TimedMessage, 0))]
    /\ dc.buffer = NullBuffer
    /\ dc.events = << >>
    /\ dc.readyState = OPEN

\* The expectation is registered under one of its types.
Registered(d, expectedMsg) ==
    \E i \in 1..Len(expectedMsg.types) :
        /\ IsExpectingMessage(d, expectedMsg.types[i])
        /\ d.expectedMessagesByType[expectedMsg.types[i]] = expectedMsg

\* C34 as claimed: every pending timer belongs to an expectation that is
\* registered in the expectation map, and no callback is invoked of an
\* expectation that a later expectMessage call has overwritten under all of
\* its types.
NoOrphanTimers ==
    /\ \A t \in dc.timers : Registered(dc, t.exp)
    /\ act = "timeout" =>
          \A i \in 1..Len(dc.callbacks) :
              \A later \in (dc.callbacks[i] + 1)..Len(hist.armed) :
                  ~(\A j \in 1..Len(hist.armed[dc.callbacks[i]].types) :
                       \E l \in 1..Len(hist.armed[later].types) :
                           hist.armed[later].types[l]
                              = hist.armed[dc.callbacks[i]].types[j])

\* The call of expectMessage whose expectation the step confirms or times
\* out; 0 if it is no such step.
RetiredByStep ==
    IF act' = "confirm" THEN hist'.call.matched
    ELSE IF act' = "timeout" /\ dc'.callbacks # << >> THEN dc'.callbacks[1]
    ELSE 0

\* C35 as claimed: confirming or timing out an expectation removes only map
\* entries that point to that expectation; a type registered to another
\* expectation stays registered to it.
ExpectationIndependence ==
    [][ RetiredByStep # 0 =>
          \A type \in DOMAIN dc.expectedMessagesByType :
              dc.expectedMessagesByType[type].timeoutCallback # RetiredByStep =>
                 /\ IsExpectingMessage(dc', type)
                 /\ dc'.expectedMessagesByType[type] = dc.expectedMessagesByType[type] ]_vars

\* A chunk is accepted while a message is being reassembled: it fires 'chunk'
\* or 'message'.
AcceptedWhileAssembling ==
    /\ ChunkStep
    /\ dc.buffer # NullBuffer
    /\ \E i \in 1..Len(dc'.events) : dc'.events[i].name \in {"chunk", "message"}

\* A chunk that is its tag byte alone arrives.
TagOnlyStep == ChunkStep /\ Len(last'.bytes) = 1

\* C36 as claimed: every chunk accepted while a message is being reassembled
\* adds bytes to the buffer, and a chunk that is the tag byte alone fires no
\* 'chunk' and resets no timer.
ChunkProgressClaimed ==
    [][ /\ AcceptedWhileAssembling => PayloadLength > 0
        /\ TagOnlyStep =>
              /\ EventsNamed("chunk")' = << >>
              /\ dc'.timers \subseteq dc.timers ]_vars

\* C36, amended: a chunk accepted while a message is being reassembled adds
\* its payload to the buffer, which is more bytes only if it has a payload.
\* A chunk that is the tag byte alone, under the tag of the message being
\* reassembled, is accepted too: the buffer keeps its bytes, one 'chunk'
\* event is fired, and the chunk timer of the expectation registered under
\* the type of the message is set to run out chunkTimeout from now.
ChunkProgress ==
    [][ /\ AcceptedWhileAssembling =>
              /\ PayloadLength >= 0
              /\ dc'.buffer # NullBuffer =>
                    dc'.buffer.writePos = dc.buffer.writePos + PayloadLength
              /\ dc'.buffer = NullBuffer =>
                    dc.buffer.byteLength = dc.buffer.writePos + PayloadLength
        /\ (/\ TagOnlyStep
            /\ dc.readyState = OPEN
            /\ dc.buffer # NullBuffer
            /\ dc.buffer.writePos < dc.buffer.byteLength
            /\ Tag = dc.receivingTag) =>
              /\ dc'.buffer = dc.buffer
              /\ Len(EventsNamed("chunk")') = 1
              /\ TimersOfKind(dc', "msg") = TimersOfKind(dc, "msg")
              /\ IsExpectingMessage(dc, dc.msgType) =>
                    LET expectedMsg == dc.expectedMessagesByType[dc.msgType]
                    IN  \E t \in dc'.timers :
                           /\ t.key = << "chunk", expectedMsg.id >>
                           /\ t.exp = expectedMsg
                           /\ t.due = clock + expectedMsg.chunkTimeout ]_vars

\* A chunk that is the tag byte alone has fired 'chunk' and has moved the
\* chunk timer of the expectation of the block that is half received.
ChunkProgressWitness ==
    /\ act = "chunk"
    /\ last.bytes = << 0 >>
    /\ clock > 0
    /\ dc.buffer # NullBuffer
    /\ dc.buffer.writePos = CHUNK_SIZE_MAX - 1
    /\ Len(dc.events) = 1 /\ dc.events[1].name = "chunk"
    /\ \E k \in 1..Len(hist.armed) :
          /\ hist.armed[k].at = 0
          /\ TimerPending(dc, "chunk", << TYPE_BLOCK >>, k, clock + CHUNK_TIMEOUT)

\* C37 as claimed: once _onClose has run, whatever is called or delivered
\* afterwards, no timer is pending, no timeout callback is invoked and no
\* type is expected.
ClosedChannelQuiescent ==
    dc.readyState = CLOSED =>
        /\ dc.timers = {}
        /\ dc.callbacks = << >>
        /\ \A type \in Types : ~IsExpectingMessage(dc, type)

\* Every call of initPersistent and initVolatile has returned.
InitsDone(n) ==
    /\ n.calls # << >>
    /\ \A i \in 1..Len(n.calls) : n.calls[i].pc = "done"

\* The calls made so far share one key store: the persistent one.
SharedStore(n) == \A i \in 1..Len(n.calls) : n.calls[i].kind = "persistent"

\* C38 as claimed: however init calls on one NetworkConfig that share one key
\* store interleave, at most one key pair is generated, keyPair and peerId
\* never change once they are set, and when all calls have returned the key
\* pair in memory is the one stored under 'keys'.
InitRaceFree ==
    [][ SharedStore(networkConfig') =>
          /\ networkConfig'.generated <= 1
          /\ networkConfig._keyPair # Null =>
                /\ networkConfig'._keyPair = networkConfig._keyPair
                /\ networkConfig'._peerId = networkConfig._peerId
          /\ InitsDone(networkConfig') =>
                networkConfig'._keyPair = networkConfig'.store ]_vars

\* The last step was a call of init, main or dev.
GenesisCalled == act' = "genesis" /\ genesisConfig'.op \in {"init", "main", "dev"}

\* C39: GenesisConfig is written once.  At most one call of init, main and
\* dev returns.  A call on an initialized class throws 'GenesisConfig already
\* initialized' and leaves the config, so NETWORK_ID and NETWORK_NAME stay.
\* A call that throws for a missing field leaves the class uninitialized:
\* the getters still throw and a valid init then returns.  A call that
\* returns sets the config to its argument.
GenesisWriteOnce ==
    /\ [](genesisConfig.succeeded <= 1)
    /\ [][ GenesisCalled =>
              /\ ~GenesisGetterThrows(genesisConfig) =>
                    /\ genesisConfig'.error = "GenesisConfig already initialized"
                    /\ ~GenesisGetterThrows(genesisConfig')
                    /\ NETWORK_ID(genesisConfig') = NETWORK_ID(genesisConfig)
                    /\ NETWORK_NAME(genesisConfig') = NETWORK_NAME(genesisConfig)
                    /\ genesisConfig'._config = genesisConfig._config
              /\ (GenesisGetterThrows(genesisConfig) /\ genesisConfig'.error # "") =>
                    /\ genesisConfig'.error # "GenesisConfig already initialized"
                    /\ GenesisGetterThrows(genesisConfig')
                    /\ \A config \in Configs :
                          GenesisInitError(genesisConfig', config)
                             = GenesisInitError(genesisConfig, config)
                    /\ GenesisInit(genesisConfig', "main",
                                   CONFIGS(genesisConfig.file).main).error = ""
              /\ genesisConfig'.error = "" =>
                    /\ ~GenesisGetterThrows(genesisConfig')
                    /\ genesisConfig'._config = genesisConfig'.arg
                    /\ NETWORK_ID(genesisConfig') # 0
                    /\ NETWORK_NAME(genesisConfig') # "" ]_vars

\* An init has returned after an init was rejected for a missing field, and
\* a call after it has thrown 'GenesisConfig already initialized'.
GenesisWriteOnceWitness ==
    /\ act = "genesis"
    /\ genesisConfig.succeeded = 1
    /\ genesisConfig.error = "GenesisConfig already initialized"
    /\ genesisConfig.rejected
    /\ genesisConfig.arg # genesisConfig._config

=============================================================================
